---- MODULE Spec2Model ----
(***************************************************************************)
(* Model of the MyES presentation generator                                *)
(* (src/generate_myes_presentation_enhanced.py): the content parser, the   *)
(* validator and the slide builder, as one pipeline                        *)
(*     parse_content_file -> validate_slide -> build_presentation.         *)
(*                                                                         *)
(* Text is modelled as a sequence of characters.  A character is a TLA+    *)
(* string: an ASCII character is the one-character string, a character     *)
(* outside ASCII is written by its code point (for instance "U+2022").     *)
(* S("abc") is the text <<"a", "b", "c">>.                                 *)
(***************************************************************************)
EXTENDS Integers, Sequences, FiniteSets, TLC

VARIABLES
    pc,        \* position of the run: "parse", "validate", "build", "done", "failed"
    current,   \* parser: the in-progress record (the dict `current`)
    section,   \* parser: the active section (`section`), NoSection for None
    slides,    \* the list `slides` (parser output, then validated and built)
    line,      \* the raw line consumed by the last parser step (history)
    nread,     \* number of lines consumed so far (history)
    seen,      \* what the lines consumed so far were (history)
    issues,    \* validator: `all_issues`, in order
    vidx,      \* validator: number of slides validated so far
    deck,      \* builder: the slides added to the presentation, in order
    warnings,  \* builder: the warnings printed, in order
    builds,    \* builder: number of build_presentation calls completed (history)
    heap,      \* web app: the mutable objects shared by reference, by address
    session,   \* web app: st.session_state of each session, None before its first run
    expected,  \* web app: the configuration each session made with its own actions (history)
    disk,      \* web app: the files of the working directory, None when absent
    job,       \* web app: the run of validate_content / generate_presentation of each session
    call       \* the last call of a library function: its name, arguments and result

\* the variables of the generator's run
pipeline_vars ==
    <<pc, current, section, slides, line, nread, seen, issues, vidx, deck, warnings,
      builds>>

\* the variables of the web app and of the library calls
app_vars == <<heap, session, expected, disk, job, call>>

vars == <<pc, current, section, slides, line, nread, seen, issues, vidx, deck, warnings,
          builds, heap, session, expected, disk, job, call>>

-----------------------------------------------------------------------------
(* Text helpers: Python's str methods, on sequences of characters.         *)

RECURSIVE S(_)
S(str) == IF Len(str) = 0 THEN <<>> ELSE <<Head(str)>> \o S(Tail(str))

CharsOf(str) == {SubSeq(str, i, i) : i \in 1..Len(str)}

Digits == CharsOf("0123456789")
LowerLetters == CharsOf("abcdefghijklmnopqrstuvwxyz")
UpperLetters == CharsOf("ABCDEFGHIJKLMNOPQRSTUVWXYZ")
WordChars == Digits \cup LowerLetters \cup UpperLetters \cup {"_"}

IsSpace(c) == c \in {" ", "\t", "\n", "\r", "\f"}

RECURSIVE RStrip(_)
RStrip(s) ==
    IF s = <<>> \/ ~IsSpace(s[Len(s)]) THEN s
    ELSE RStrip(SubSeq(s, 1, Len(s) - 1))

RECURSIVE LStrip(_)
LStrip(s) ==
    IF s = <<>> \/ ~IsSpace(s[1]) THEN s
    ELSE LStrip(Tail(s))

Strip(s) == LStrip(RStrip(s))

StartsWith(s, p) == Len(s) >= Len(p) /\ SubSeq(s, 1, Len(p)) = p

EndsWith(s, p) == Len(s) >= Len(p) /\ SubSeq(s, Len(s) - Len(p) + 1, Len(s)) = p

Contains(s, sub) ==
    \E i \in 1..(Len(s) - Len(sub) + 1) : SubSeq(s, i, i + Len(sub) - 1) = sub

\* str.replace(old, new): every non-overlapping occurrence, left to right;
\* i is the place of the leftmost occurrence
RECURSIVE Replace(_, _, _)
Replace(s, old, new) ==
    IF ~Contains(s, old) THEN s
    ELSE LET At(j) == SubSeq(s, j, j + Len(old) - 1) = old
             i == CHOOSE j \in 1..(Len(s) - Len(old) + 1) :
                      At(j) /\ \A k \in 1..(j - 1) : ~At(k)
         IN SubSeq(s, 1, i - 1) \o new
            \o Replace(SubSeq(s, i + Len(old), Len(s)), old, new)

\* index of the first occurrence of character c in s, 0 when there is none
RECURSIVE IndexOf(_, _)
IndexOf(s, c) ==
    IF s = <<>> THEN 0
    ELSE IF s[1] = c THEN 1
    ELSE LET r == IndexOf(Tail(s), c) IN IF r = 0 THEN 0 ELSE r + 1

\* str.split(c) for a one-character separator: never empty
RECURSIVE Split(_, _)
Split(s, c) ==
    LET i == IndexOf(s, c) IN
    IF i = 0 THEN <<s>>
    ELSE <<SubSeq(s, 1, i - 1)>> \o Split(SubSeq(s, i + 1, Len(s)), c)

\* " ".join(lines)
RECURSIVE Join(_)
Join(ls) ==
    IF ls = <<>> THEN <<>>
    ELSE IF Len(ls) = 1 THEN ls[1]
    ELSE ls[1] \o <<" ">> \o Join(Tail(ls))

\* number of leading whitespace characters of s
RECURSIVE LeadingSpaces(_)
LeadingSpaces(s) ==
    IF s = <<>> \/ ~IsSpace(s[1]) THEN 0 ELSE 1 + LeadingSpaces(Tail(s))

\* number of leading characters of s that belong to the set cs
RECURSIVE LeadingIn(_, _)
LeadingIn(s, cs) ==
    IF s = <<>> \/ s[1] \notin cs THEN 0 ELSE 1 + LeadingIn(Tail(s), cs)

Drop(s, n) == SubSeq(s, n + 1, Len(s))

-----------------------------------------------------------------------------
(* Question splitting                                                      *)

\* the lookahead (?=\d+\.|\b[A-Z]) at the start of s; a word boundary always
\* precedes s here, the character before it being "?" or whitespace
QuestionAhead(s) ==
    \/ LET d == LeadingIn(s, Digits) IN d >= 1 /\ Len(s) > d /\ s[d + 1] = "."
    \/ s # <<>> /\ s[1] \in UpperLetters

\* ReSplitQuestions with the character after the separator consumed too
RECURSIVE ReSplitQuestionsGreedy(_, _)
ReSplitQuestionsGreedy(s, acc) ==
    IF s = <<>> THEN <<acc>>
    ELSE IF s[1] = "?"
         THEN LET rest == Tail(s)
                  k == LeadingSpaces(rest)
              IN IF QuestionAhead(Drop(rest, k))
                 THEN <<acc>> \o ReSplitQuestionsGreedy(Drop(rest, k + 1), <<>>)
                 ELSE ReSplitQuestionsGreedy(rest, Append(acc, "?"))
         ELSE ReSplitQuestionsGreedy(Tail(s), Append(acc, s[1]))

\* re.split(r'\?\s*(?=\d+\.|\b[A-Z])', text): acc is the piece being collected
RECURSIVE ReSplitQuestions(_, _)
ReSplitQuestions(s, acc) ==
    IF s = <<>> THEN <<acc>>
    ELSE IF s[1] = "?"
         THEN LET rest == Tail(s)
                  k == LeadingSpaces(rest)
              IN IF QuestionAhead(Drop(rest, k))
                 THEN <<acc>> \o ReSplitQuestions(Drop(rest, k), <<>>)
                 ELSE ReSplitQuestions(rest, Append(acc, "?"))
         ELSE ReSplitQuestions(Tail(s), Append(acc, s[1]))

\* QuestionFragments without the question mark added back
RECURSIVE QuestionFragmentsUnmarked(_)
QuestionFragmentsUnmarked(qs) ==
    IF qs = <<>> THEN <<>>
    ELSE LET q == Strip(qs[1]) IN
         (IF q = <<>> THEN <<>> ELSE <<q>>) \o QuestionFragmentsUnmarked(Tail(qs))

RECURSIVE QuestionFragments(_)
QuestionFragments(qs) ==
    IF qs = <<>> THEN <<>>
    ELSE LET q == Strip(qs[1]) IN
         (IF q = <<>> THEN <<>>
          ELSE IF EndsWith(q, <<"?">>) THEN <<q>> ELSE <<Append(q, "?")>>)
         \o QuestionFragments(Tail(qs))

split_questions(text) ==
    LET result == QuestionFragments(ReSplitQuestions(text, <<>>)) IN
    IF result # <<>> THEN result ELSE <<text>>

-----------------------------------------------------------------------------
(* Image directive                                                         *)

\* one "key=value" part of an Image line updates the dict; a part without "="
\* is skipped
ImagePart(data, part) ==
    LET i == IndexOf(part, "=") IN
    IF i = 0 THEN data
    ELSE LET key   == Strip(SubSeq(part, 1, i - 1))
             value == Strip(SubSeq(part, i + 1, Len(part)))
         IN [k \in DOMAIN data \cup {key} |-> IF k = key THEN value ELSE data[k]]

RECURSIVE ImageParts(_, _)
ImageParts(data, parts) ==
    IF parts = <<>> THEN data
    ELSE ImageParts(ImagePart(data, parts[1]), Tail(parts))

\* the dict image_data: a function from keys (texts) to values (texts)
parse_image_directive(ln) ==
    LET parts == Split(Replace(ln, S("Image:"), <<>>), "|") IN
    ImageParts([k \in {S("path")} |-> Strip(parts[1])], Tail(parts))

-----------------------------------------------------------------------------
(* Content parser                                                          *)

NoSection == "none"

Regions == {"content", "left", "right", "left_top", "right_top",
            "left_bottom", "right_bottom"}

Sections == Regions \cup {"notes"}

\* the fresh dict; template <<>> is None, <<t>> is the string t
EmptyRecord ==
    [title |-> <<>>, content |-> <<>>, notes |-> <<>>, images |-> <<>>,
     left |-> <<>>, right |-> <<>>, left_top |-> <<>>, right_top |-> <<>>,
     left_bottom |-> <<>>, right_bottom |-> <<>>, template |-> <<>>]

\* the parser's state as a value
PState(cur, sec, out) == [current |-> cur, section |-> sec, slides |-> out]

\* StoreText without the test of the text
StoreTextAlways(st, sec, text) ==
    IF sec \in Sections
    THEN PState([st.current EXCEPT ![sec] = Append(@, text)], sec, st.slides)
    ELSE PState(st.current, sec, st.slides)

\* StoreText with the text trimmed on both sides before it is stored
StoreTextTrimmed(st, sec, text) ==
    IF sec \in Sections /\ text # <<>>
    THEN PState([st.current EXCEPT ![sec] = Append(@, Strip(text))], sec, st.slides)
    ELSE PState(st.current, sec, st.slides)

\* "if section in current and text: current[section].append(text)"
StoreText(st, sec, text) ==
    IF sec \in Sections /\ text # <<>>
    THEN PState([st.current EXCEPT ![sec] = Append(@, text)], sec, st.slides)
    ELSE PState(st.current, sec, st.slides)

\* a line starting with "Slide ": the record is emitted and replaced by a
\* fresh one only when it has a title; the section is cleared either way
SlideLine(st) ==
    IF st.current.title # <<>>
    THEN PState(EmptyRecord, NoSection, Append(st.slides, st.current))
    ELSE PState(st.current, NoSection, st.slides)

\* TemplateLine that also clears the active section
TemplateLineClearing(st, ln) ==
    PState([st.current EXCEPT
               !.template = <<Strip(Replace(ln, S("Template:"), <<>>))>>],
           NoSection, st.slides)

TemplateLine(st, ln) ==
    PState([st.current EXCEPT
               !.template = <<Strip(Replace(ln, S("Template:"), <<>>))>>],
           st.section, st.slides)

ImageLine(st, ln) ==
    PState([st.current EXCEPT !.images = Append(@, parse_image_directive(ln))],
           st.section, st.slides)

\* TitleLine without the trim of the title
TitleLineUntrimmed(st, ln) ==
    PState([st.current EXCEPT !.title = Replace(ln, S("Title:"), <<>>)],
           NoSection, st.slides)

TitleLine(st, ln) ==
    PState([st.current EXCEPT !.title = Strip(Replace(ln, S("Title:"), <<>>))],
           NoSection, st.slides)

\* a section header other than LeftBottom
HeaderLine(st, ln, header, sec) ==
    StoreText(st, sec, Strip(Replace(ln, S(header), <<>>)))

\* LeftBottomLine storing the remainder as it is, markers or not
LeftBottomLineUnsplit(st, ln) ==
    StoreText(st, "left_bottom", Strip(Replace(ln, S("LeftBottom:"), <<>>)))

\* "LeftBottom:" with the automatic split of merged questions
LeftBottomLine(st, ln) ==
    LET text == Strip(Replace(ln, S("LeftBottom:"), <<>>)) IN
    IF \E q \in {S("1."), S("2."), S("3.")} : Contains(text, q)
    THEN PState([st.current EXCEPT !.left_bottom = @ \o split_questions(text)],
                "left_bottom", st.slides)
    ELSE StoreText(st, "left_bottom", text)

\* one iteration of "for line in f" on the raw line raw
ParseLine(st, raw) ==
    LET ln == RStrip(raw) IN
    IF ln = <<>> \/ ln = S("---") THEN st
    ELSE IF StartsWith(ln, S("Slide ")) THEN SlideLine(st)
    ELSE IF StartsWith(ln, S("Template:")) THEN TemplateLine(st, ln)
    ELSE IF StartsWith(ln, S("Image:")) THEN ImageLine(st, ln)
    ELSE IF StartsWith(ln, S("Title:")) THEN TitleLine(st, ln)
    ELSE IF StartsWith(ln, S("Content:")) THEN HeaderLine(st, ln, "Content:", "content")
    ELSE IF StartsWith(ln, S("Left:")) THEN HeaderLine(st, ln, "Left:", "left")
    ELSE IF StartsWith(ln, S("Right:")) THEN HeaderLine(st, ln, "Right:", "right")
    ELSE IF StartsWith(ln, S("LeftTop:")) THEN HeaderLine(st, ln, "LeftTop:", "left_top")
    ELSE IF StartsWith(ln, S("RightTop:")) THEN HeaderLine(st, ln, "RightTop:", "right_top")
    ELSE IF StartsWith(ln, S("LeftBottom:")) THEN LeftBottomLine(st, ln)
    ELSE IF StartsWith(ln, S("RightBottom:")) THEN HeaderLine(st, ln, "RightBottom:", "right_bottom")
    ELSE IF StartsWith(ln, S("Notes:")) THEN HeaderLine(st, ln, "Notes:", "notes")
    ELSE StoreText(st, st.section, ln)

\* EndOfFile emitting the in-progress record whatever its title
EndOfFileAlways(st) == Append(st.slides, st.current)

\* after the loop: "if current['title']: slides.append(current)"
EndOfFile(st) ==
    IF st.current.title # <<>> THEN Append(st.slides, st.current) ELSE st.slides

-----------------------------------------------------------------------------
(* Validation                                                              *)

\* len(title) above which validate_slide reports a long title
TitleLimit == 100

\* the files os.path.exists finds, and those among them add_picture can load
ExistingFiles == {S("a.png"), S("bad.png")}
LoadableImages == {S("a.png")}

PathExists(path) == path \in ExistingFiles

RECURSIVE ImageIssues(_, _)
ImageIssues(images, num) ==
    IF images = <<>> THEN <<>>
    ELSE (IF ~PathExists(images[1][S("path")])
          THEN <<[slide |-> num, kind |-> "Image not found",
                  detail |-> images[1][S("path")]]>>
          ELSE <<>>)
         \o ImageIssues(Tail(images), num)

\* HasContent looking at the content region only
HasContentRegion(sd) == sd.content # <<>>

\* HasContent counting the notes as content
HasContentOrNotes(sd) == \E r \in Sections : sd[r] # <<>>

\* any([content, left, right, left_top, right_top, left_bottom, right_bottom])
HasContent(sd) == \E r \in Regions : sd[r] # <<>>

TitleIssues(sd, num) ==
    IF sd.title = <<>>
    THEN <<[slide |-> num, kind |-> "Missing title", detail |-> <<>>]>>
    ELSE IF Len(sd.title) > TitleLimit
         THEN <<[slide |-> num, kind |-> "Title very long", detail |-> <<Len(sd.title)>>]>>
         ELSE <<>>

ContentIssues(sd, num) ==
    IF ~HasContent(sd)
    THEN <<[slide |-> num, kind |-> "No content defined", detail |-> <<>>]>>
    ELSE <<>>

\* the list of issues of one slide; an issue is the message's parts
validate_slide(sd, num) ==
    TitleIssues(sd, num) \o ContentIssues(sd, num) \o ImageIssues(sd.images, num)

-----------------------------------------------------------------------------
(* Configuration: DEFAULT_CONFIG                                           *)

\* an optional value: None is <<>>, a value x is <<x>>
None == <<>>
Some(x) == <<x>>

DefaultStyles ==
    [n \in {S("vocabulary"), S("question"), S("answer"), S("emphasis")} |->
        IF n = S("vocabulary")
        THEN [font_size |-> 24, color |-> <<0, 102, 0>>, bold |-> TRUE]
        ELSE IF n = S("question")
        THEN [font_size |-> 20, color |-> <<102, 0, 102>>, bold |-> FALSE]
        ELSE IF n = S("answer")
        THEN [font_size |-> 18, color |-> <<128, 128, 128>>, italic |-> TRUE]
        ELSE [font_size |-> 22, color |-> <<192, 0, 0>>, bold |-> TRUE]]

DEFAULT_CONFIG ==
    [background_image |-> S("MyES Slides Template 2025.jpg"),
     title_color |-> <<192, 0, 0>>,
     text_color |-> <<0, 0, 102>>,
     font_name |-> S("Montserrat"),
     enable_animations |-> TRUE,
     enable_slide_numbers |-> TRUE,
     enable_overflow_warnings |-> TRUE,
     styles |-> DefaultStyles]

-----------------------------------------------------------------------------
(* Math and special characters                                             *)

\* the characters process_math produces, by code point
Superscript(d) ==
    CASE d = "0" -> "U+2070" [] d = "1" -> "U+00B9" [] d = "2" -> "U+00B2"
      [] d = "3" -> "U+00B3" [] d = "4" -> "U+2074" [] d = "5" -> "U+2075"
      [] d = "6" -> "U+2076" [] d = "7" -> "U+2077" [] d = "8" -> "U+2078"
      [] d = "9" -> "U+2079"

Subscript(d) ==
    CASE d = "0" -> "U+2080" [] d = "1" -> "U+2081" [] d = "2" -> "U+2082"
      [] d = "3" -> "U+2083" [] d = "4" -> "U+2084" [] d = "5" -> "U+2085"
      [] d = "6" -> "U+2086" [] d = "7" -> "U+2087" [] d = "8" -> "U+2088"
      [] d = "9" -> "U+2089"

\* SubDigit with the mark left in front of the converted digit
RECURSIVE SubDigitKeepingMark(_, _)
SubDigitKeepingMark(s, mark) ==
    LET At(j) == s[j] = mark /\ s[j + 1] \in Digits IN
    IF ~\E j \in 1..(Len(s) - 1) : At(j) THEN s
    ELSE LET i == CHOOSE j \in 1..(Len(s) - 1) : At(j) /\ \A k \in 1..(j - 1) : ~At(k)
         IN SubSeq(s, 1, i)
            \o <<IF mark = "^" THEN Superscript(s[i + 1]) ELSE Subscript(s[i + 1])>>
            \o SubDigitKeepingMark(Drop(s, i + 1), mark)

\* re.sub(r'\^(\d)', ...): mark "^" or "_", followed by a digit; i is the
\* place of the leftmost match
RECURSIVE SubDigit(_, _)
SubDigit(s, mark) ==
    LET At(j) == s[j] = mark /\ s[j + 1] \in Digits IN
    IF ~\E j \in 1..(Len(s) - 1) : At(j) THEN s
    ELSE LET i == CHOOSE j \in 1..(Len(s) - 1) : At(j) /\ \A k \in 1..(j - 1) : ~At(k)
         IN SubSeq(s, 1, i - 1)
            \o <<IF mark = "^" THEN Superscript(s[i + 1]) ELSE Subscript(s[i + 1])>>
            \o SubDigit(Drop(s, i + 1), mark)

\* the dict `replacements`, in its order
MathReplacements ==
    << <<S("<="), <<"U+2264">> >>, <<S(">="), <<"U+2265">> >>,
       <<S("!="), <<"U+2260">> >>, <<S("~="), <<"U+2248">> >>,
       <<S("alpha"), <<"U+03B1">> >>, <<S("beta"), <<"U+03B2">> >>,
       <<S("gamma"), <<"U+03B3">> >>, <<S("delta"), <<"U+03B4">> >>,
       <<S("pi"), <<"U+03C0">> >>, <<S("theta"), <<"U+03B8">> >>,
       <<S("sigma"), <<"U+03C3">> >> >>

RECURSIVE ReplaceAll(_, _)
ReplaceAll(s, table) ==
    IF table = <<>> THEN s
    ELSE ReplaceAll(Replace(s, table[1][1], table[1][2]), Tail(table))

process_math(text) ==
    ReplaceAll(SubDigit(SubDigit(text, "^"), "_"), MathReplacements)

-----------------------------------------------------------------------------
(* Style tags                                                              *)

\* re.match(r'^\[(\w+)\]\s*(.+)', text): <<style, text>>, style None when
\* there is no match.  When only whitespace follows the tag, \s* gives back
\* its last character to (.+).
parse_styled_text(text) ==
    LET w    == IF text # <<>> /\ text[1] = "[" THEN LeadingIn(Tail(text), WordChars) ELSE 0
        rest == Drop(text, w + 2)
        k    == LeadingSpaces(rest)
    IN IF text = <<>> \/ text[1] # "[" \/ w = 0 \/ Len(text) < w + 2
          \/ text[w + 2] # "]" \/ rest = <<>>
       THEN <<None, text>>
       ELSE <<Some(SubSeq(text, 2, w + 1)),
              IF k < Len(rest) THEN Drop(rest, k) ELSE <<rest[Len(rest)]>> >>

\* the font of a paragraph after "p.font.name = config['font_name']"; None
\* is an attribute that was not set
PlainFont(config) ==
    [name |-> Some(config.font_name), size |-> None, color |-> None,
     bold |-> None, italic |-> None]

\* apply_style: sets the font only when the style is configured
apply_style(font, style_name, config) ==
    IF style_name \in DOMAIN config.styles
    THEN LET style == config.styles[style_name] IN
         [font EXCEPT
            !.size = Some(IF "font_size" \in DOMAIN style THEN style.font_size ELSE 22),
            !.color = IF "color" \in DOMAIN style THEN Some(style.color) ELSE @,
            !.bold = Some(IF "bold" \in DOMAIN style THEN style.bold ELSE FALSE),
            !.italic = Some(IF "italic" \in DOMAIN style THEN style.italic ELSE FALSE)]
    ELSE font

\* the else branch: the default body size and colour
DefaultBodyFont(font, font_size, config) ==
    [font EXCEPT !.size = Some(font_size), !.color = Some(config.text_color)]

\* "if style: apply_style(p, style, config) else: size, colour"
StyledFont(style, font_size, config) ==
    IF style # None
    THEN apply_style(PlainFont(config), style[1], config)
    ELSE DefaultBodyFont(PlainFont(config), font_size, config)

-----------------------------------------------------------------------------
(* List detection and cleaning                                             *)

BulletGlyphs == {"U+2022", "-", "*"}

\* any of the four bullet_patterns matches at the start of the line
MatchesBullet(ln) ==
    LET r == Drop(ln, LeadingSpaces(ln))
        d == LeadingIn(r, Digits)
    IN \/ r # <<>> /\ r[1] \in BulletGlyphs
       \/ d >= 1 /\ Len(r) > d /\ r[d + 1] = "."
       \/ Len(r) >= 2 /\ r[1] \in LowerLetters /\ r[2] = ")"
       \/ Len(r) >= 2 /\ r[1] \in UpperLetters /\ r[2] = "."

\* matching >= len(lines) * 0.5
is_list_content(lines) ==
    IF lines = <<>> THEN FALSE
    ELSE 2 * Cardinality({i \in 1..Len(lines) : MatchesBullet(lines[i])}) >= Len(lines)

\* re.sub(r'^\s*[glyph]\s*', '', text)
CleanGlyph(text) ==
    LET r == Drop(text, LeadingSpaces(text)) IN
    IF r # <<>> /\ r[1] \in BulletGlyphs
    THEN Drop(Tail(r), LeadingSpaces(Tail(r))) ELSE text

\* re.sub(r'^\s*\d+\.\s*', '', text)
CleanNumber(text) ==
    LET r == Drop(text, LeadingSpaces(text))
        d == LeadingIn(r, Digits)
    IN IF d >= 1 /\ Len(r) > d /\ r[d + 1] = "."
       THEN Drop(Drop(r, d + 1), LeadingSpaces(Drop(r, d + 1))) ELSE text

\* re.sub(r'^\s*[a-z]\)\s*', '', text)
CleanLetter(text) ==
    LET r == Drop(text, LeadingSpaces(text)) IN
    IF Len(r) >= 2 /\ r[1] \in LowerLetters /\ r[2] = ")"
    THEN Drop(Drop(r, 2), LeadingSpaces(Drop(r, 2))) ELSE text

clean_bullet_marker(text) == CleanLetter(CleanNumber(CleanGlyph(text)))

-----------------------------------------------------------------------------
(* Overflow estimate                                                       *)

\* A dimension handed to add_textbox: v is its value in EMU; inches tells
\* whether it is a Length object (it has .inches) or a plain number, which
\* the estimate then takes for inches as it stands.
Length(emu) == [v |-> emu, inches |-> TRUE]
Plain(x) == [v |-> x, inches |-> FALSE]

\* floor(a * b / c) without leaving 32 bits
MulDiv(a, b, c) == (a \div c) * b + ((a % c) * b) \div c

\* len(word) + 1 for each word of text.split()
RECURSIVE WordLengths(_)
WordLengths(text) ==
    LET r == Drop(text, LeadingSpaces(text)) IN
    IF r = <<>> THEN <<>>
    ELSE LET n == CHOOSE k \in 1..Len(r) :
                    /\ \A i \in 1..k : ~IsSpace(r[i])
                    /\ (k = Len(r) \/ IsSpace(r[k + 1]))
         IN <<n + 1>> \o WordLengths(Drop(r, n))

\* the greedy wrap: the number of lines the words need
RECURSIVE WrapLines(_, _, _, _)
WrapLines(ws, current_line_length, lines_needed, chars_per_line) ==
    IF ws = <<>> THEN lines_needed
    ELSE IF current_line_length + ws[1] > chars_per_line
         THEN WrapLines(Tail(ws), ws[1], lines_needed + 1, chars_per_line)
         ELSE WrapLines(Tail(ws), current_line_length + ws[1], lines_needed, chars_per_line)

\* check_text_overflow with "lines_needed >= lines_available"
check_text_overflow_inclusive(text, font_size, width, height) ==
    LET chars_per_line ==
            IF width.inches THEN width.v \div (5080 * font_size)
            ELSE (width.v * 180) \div font_size
        needed == WrapLines(WordLengths(text), 0, 1, chars_per_line)
        available ==
            IF height.inches THEN height.v \div (16510 * font_size)
            ELSE MulDiv(height.v, 720, 13 * font_size)
    IN [will_overflow |-> needed >= available, lines_needed |-> needed,
        lines_available |-> available]

\* chars_per_line = int(width_inches * (72 / font_size * 2.5)), and
\* lines_available = int(height_inches / (font_size / 72 * 1.3)), in exact
\* arithmetic: 72 * 2.5 = 180, 72 / 1.3 = 720 / 13, 914400 / 180 = 5080,
\* 914400 * 13 / 720 = 16510
check_text_overflow(text, font_size, width, height) ==
    LET chars_per_line ==
            IF width.inches THEN width.v \div (5080 * font_size)
            ELSE (width.v * 180) \div font_size
        needed == WrapLines(WordLengths(text), 0, 1, chars_per_line)
        available ==
            IF height.inches THEN height.v \div (16510 * font_size)
            ELSE MulDiv(height.v, 720, 13 * font_size)
    IN [will_overflow |-> needed > available, lines_needed |-> needed,
        lines_available |-> available]

-----------------------------------------------------------------------------
(* Text boxes                                                              *)

Min(a, b) == IF a <= b THEN a ELSE b

LowerChar(c) ==
    IF c \in UpperLetters
    THEN LET i == CHOOSE k \in 1..26 : SubSeq("ABCDEFGHIJKLMNOPQRSTUVWXYZ", k, k) = c
         IN SubSeq("abcdefghijklmnopqrstuvwxyz", i, i)
    ELSE c

Lower(s) == [i \in 1..Len(s) |-> LowerChar(s[i])]

\* AutoFontSize with each cap applied from its threshold on
AutoFontSizeFrom(font_size, text_length) ==
    LET a == IF text_length >= 300 THEN Min(font_size, 18) ELSE font_size
        b == IF text_length >= 500 THEN Min(a, 16) ELSE a
        c == IF text_length >= 700 THEN Min(b, 14) ELSE b
    IN IF text_length >= 1000 THEN Min(c, 12) ELSE c

\* the automatic font size for long text
AutoFontSize(font_size, text_length) ==
    LET a == IF text_length > 300 THEN Min(font_size, 18) ELSE font_size
        b == IF text_length > 500 THEN Min(a, 16) ELSE a
        c == IF text_length > 700 THEN Min(b, 14) ELSE b
    IN IF text_length > 1000 THEN Min(c, 12) ELSE c

\* RemoveStep removing the first marker of the line only
RECURSIVE RemoveStepOnce(_)
RemoveStepOnce(s) ==
    IF Len(s) < 6 THEN s
    ELSE IF Lower(SubSeq(s, 1, 6)) = S("[step]")
         THEN Drop(Drop(s, 6), LeadingSpaces(Drop(s, 6)))
         ELSE <<s[1]>> \o RemoveStepOnce(Tail(s))

\* re.sub(r'\[step\]\s*', '', item, flags=re.IGNORECASE)
RECURSIVE RemoveStep(_)
RemoveStep(s) ==
    IF Len(s) < 6 THEN s
    ELSE IF Lower(SubSeq(s, 1, 6)) = S("[step]")
         THEN RemoveStep(Drop(Drop(s, 6), LeadingSpaces(Drop(s, 6))))
         ELSE <<s[1]>> \o RemoveStep(Tail(s))

\* the height Inches(0.6) of a step box and the step Inches(0.65)
StepBoxHeight == 548640
StepIncrement == 594360

\* a text frame's first paragraph as the library creates it
BlankParagraph ==
    [text |-> <<>>,
     font |-> [name |-> None, size |-> None, color |-> None, bold |-> None, italic |-> None],
     level |-> None, space_after |-> None]

\* add_step_textboxes: one box per non-blank line; i is the index of the line
RECURSIVE StepBoxes(_, _, _, _, _, _, _, _)
StepBoxes(lines, i, left, top_offset, width, font_size, label, config) ==
    IF i > Len(lines) THEN <<>>
    ELSE IF Strip(lines[i]) = <<>>
         THEN StepBoxes(lines, i + 1, left, top_offset, width, font_size, label, config)
         ELSE LET styled == parse_styled_text(process_math(RemoveStep(lines[i])))
                  box == [kind |-> "textbox", name |-> <<label, "_Step", i>>,
                          left |-> left, top |-> top_offset, width |-> width.v,
                          height |-> StepBoxHeight, anchor |-> None,
                          paragraphs |->
                              <<[text |-> styled[2],
                                 font |-> StyledFont(styled[1], font_size, config),
                                 level |-> None, space_after |-> None]>>]
              IN <<box>> \o StepBoxes(lines, i + 1, left, top_offset + StepIncrement,
                                      width, font_size, label, config)

add_step_textboxes(left, top, width, lines, font_size, label, config) ==
    StepBoxes(lines, 1, left, top, width, font_size, label, config)

\* the paragraphs of the normal text frame, one per non-blank line
RECURSIVE Paragraphs(_, _, _, _, _)
Paragraphs(lines, is_list, font_size, text_length, config) ==
    IF lines = <<>> THEN <<>>
    ELSE IF Strip(lines[1]) = <<>>
         THEN Paragraphs(Tail(lines), is_list, font_size, text_length, config)
         ELSE LET styled == parse_styled_text(lines[1])
                  text == process_math(styled[2])
              IN <<[text |-> IF is_list THEN clean_bullet_marker(text) ELSE text,
                    font |-> StyledFont(styled[1], font_size, config),
                    level |-> IF is_list THEN Some(0) ELSE None,
                    space_after |-> Some(IF text_length > 300 THEN 3 ELSE 6)]>>
                 \o Paragraphs(Tail(lines), is_list, font_size, text_length, config)

\* the overflow warning add_textbox prints, if any; the estimate of a zero
\* font size divides by zero, and the except clause drops that exception
OverflowWarning(joined, font_size, width, height, label, config) ==
    IF config.enable_overflow_warnings /\ font_size # 0
    THEN LET r == check_text_overflow(joined, font_size, width, height) IN
         IF r.will_overflow
         THEN <<[kind |-> "overflow", label |-> label,
                 needed |-> r.lines_needed, available |-> r.lines_available]>>
         ELSE <<>>
    ELSE <<>>

\* add_textbox that takes two points off the font size when it has warned
add_textbox_fitting(left, top, width, height, lines, font_size, label, config, v_align) ==
    IF lines = <<>> THEN [shapes |-> <<>>, warnings |-> <<>>]
    ELSE
    LET joined == process_math(Join(lines))
        text_length == Len(joined)
        warned == OverflowWarning(joined, font_size, width, height, label, config)
        size == AutoFontSize(IF warned # <<>> THEN font_size - 2 ELSE font_size,
                             text_length)
    IN IF \E i \in 1..Len(lines) : Contains(Lower(lines[i]), S("[step]"))
       THEN [shapes |-> add_step_textboxes(left, top, width, lines, size, label, config),
             warnings |-> warned]
       ELSE LET paras == Paragraphs(lines, is_list_content(lines), size, text_length, config)
            IN [shapes |->
                  <<[kind |-> "textbox", name |-> <<label>>,
                     left |-> left, top |-> top, width |-> width.v,
                     height |-> height.v, anchor |-> Some(v_align),
                     paragraphs |-> IF paras = <<>> THEN <<BlankParagraph>> ELSE paras]>>,
                warnings |-> warned]

\* add_textbox: the shapes it adds to the slide and the warnings it prints
add_textbox(left, top, width, height, lines, font_size, label, config, v_align) ==
    IF lines = <<>> THEN [shapes |-> <<>>, warnings |-> <<>>]
    ELSE
    LET joined == process_math(Join(lines))
        text_length == Len(joined)
        warned == OverflowWarning(joined, font_size, width, height, label, config)
        size == AutoFontSize(font_size, text_length)
    IN IF \E i \in 1..Len(lines) : Contains(Lower(lines[i]), S("[step]"))
       THEN [shapes |-> add_step_textboxes(left, top, width, lines, size, label, config),
             warnings |-> warned]
       ELSE LET paras == Paragraphs(lines, is_list_content(lines), size, text_length, config)
            IN [shapes |->
                  <<[kind |-> "textbox", name |-> <<label>>,
                     left |-> left, top |-> top, width |-> width.v,
                     height |-> height.v, anchor |-> Some(v_align),
                     paragraphs |-> IF paras = <<>> THEN <<BlankParagraph>> ELSE paras]>>,
                warnings |-> warned]

-----------------------------------------------------------------------------
(* Images                                                                  *)

\* digits with single underscores between them
DigitPart(s) ==
    /\ s # <<>>
    /\ \A i \in 1..Len(s) : s[i] \in Digits \cup {"_"}
    /\ s[1] \in Digits /\ s[Len(s)] \in Digits
    /\ \A i \in 1..(Len(s) - 1) : ~(s[i] = "_" /\ s[i + 1] = "_")

Unsigned(s) == IF s # <<>> /\ s[1] \in {"+", "-"} THEN Tail(s) ELSE s

\* digits, digits., digits.digits or .digits
Mantissa(s) ==
    LET i == IndexOf(s, ".") IN
    IF i = 0 THEN DigitPart(s)
    ELSE LET a == SubSeq(s, 1, i - 1)
             b == Drop(s, i)
         IN /\ a # <<>> \/ b # <<>>
            /\ a = <<>> \/ DigitPart(a)
            /\ b = <<>> \/ DigitPart(b)

\* float(value) returns a finite number, so that Inches(float(value)) does
\* not raise: a decimal literal with optional sign and exponent
FloatOk(value) ==
    LET u == Unsigned(Strip(value))
        e == IF IndexOf(u, "e") # 0 THEN IndexOf(u, "e") ELSE IndexOf(u, "E")
    IN IF e = 0 THEN Mantissa(u)
       ELSE Mantissa(SubSeq(u, 1, e - 1)) /\ DigitPart(Unsigned(Drop(u, e)))

Has(data, key) == S(key) \in DOMAIN data

\* add_image_to_slide: raised tells that float() raised, before the try
add_image_to_slide(image_data) ==
    LET path == image_data[S("path")] IN
    IF \E k \in {"width", "left", "top"} : Has(image_data, k) /\ ~FloatOk(image_data[S(k)])
    THEN [raised |-> TRUE, shapes |-> <<>>, warnings |-> <<>>]
    ELSE IF path \in LoadableImages
    THEN [raised |-> FALSE,
          shapes |-> <<[kind |-> "picture", path |-> path,
                        width |-> IF Has(image_data, "width")
                                  THEN Some(image_data[S("width")]) ELSE None,
                        left |-> IF Has(image_data, "left")
                                 THEN <<"left", image_data[S("left")]>>
                                 ELSE IF Has(image_data, "align")
                                         /\ image_data[S("align")] = S("center")
                                      THEN <<"center">> ELSE <<"content_left">>,
                        top |-> IF Has(image_data, "top")
                                THEN <<"top", image_data[S("top")]>>
                                ELSE <<"content_top">>]>>,
          warnings |-> <<>>]
    ELSE [raised |-> FALSE, shapes |-> <<>>,
          warnings |-> <<[kind |-> "image", path |-> path]>>]

\* "for img_data in s.get('images', [])": stops at the first image that raises
RECURSIVE AddImages(_)
AddImages(images) ==
    IF images = <<>> THEN [raised |-> FALSE, shapes |-> <<>>, warnings |-> <<>>]
    ELSE LET first == add_image_to_slide(images[1]) IN
         IF first.raised THEN first
         ELSE LET rest == AddImages(Tail(images)) IN
              [raised |-> rest.raised, shapes |-> first.shapes \o rest.shapes,
               warnings |-> first.warnings \o rest.warnings]

-----------------------------------------------------------------------------
(* Templates                                                               *)

\* SLIDE_TEMPLATES: the left/right titles of the "left_right" templates
SLIDE_TEMPLATES ==
    [n \in {S("vocabulary"), S("reading"), S("comparison")} |->
        IF n = S("vocabulary")
        THEN [layout |-> "left_right", left_title |-> S("Word"),
              right_title |-> S("Definition"), style |-> "vocabulary"]
        ELSE IF n = S("reading")
        THEN [layout |-> "stacked", bottom_label |-> S("Questions")]
        ELSE [layout |-> "left_right", left_title |-> S("Before"),
              right_title |-> S("After")]]

\* apply_template that adds the headers to empty regions too
apply_template_always(slide_data, template_name) ==
    IF template_name \notin DOMAIN SLIDE_TEMPLATES THEN slide_data
    ELSE LET template == SLIDE_TEMPLATES[template_name] IN
         IF template.layout = "left_right"
         THEN [slide_data EXCEPT
                 !.left = IF "left_title" \in DOMAIN template
                          THEN <<S("[emphasis] ") \o template.left_title>> \o @ ELSE @,
                 !.right = IF "right_title" \in DOMAIN template
                           THEN <<S("[emphasis] ") \o template.right_title>> \o @ ELSE @]
         ELSE slide_data

\* apply_template that adds a header only to a region that does not start
\* with it yet
apply_template_once(slide_data, template_name) ==
    IF template_name \notin DOMAIN SLIDE_TEMPLATES THEN slide_data
    ELSE LET template == SLIDE_TEMPLATES[template_name] IN
         IF template.layout = "left_right"
         THEN [slide_data EXCEPT
                 !.left = IF "left_title" \in DOMAIN template /\ @ # <<>>
                             /\ @[1] # S("[emphasis] ") \o template.left_title
                          THEN <<S("[emphasis] ") \o template.left_title>> \o @ ELSE @,
                 !.right = IF "right_title" \in DOMAIN template /\ @ # <<>>
                              /\ @[1] # S("[emphasis] ") \o template.right_title
                           THEN <<S("[emphasis] ") \o template.right_title>> \o @ ELSE @]
         ELSE slide_data

\* apply_template with the header added after the lines of the region
apply_template_appending(slide_data, template_name) ==
    IF template_name \notin DOMAIN SLIDE_TEMPLATES THEN slide_data
    ELSE LET template == SLIDE_TEMPLATES[template_name] IN
         IF template.layout = "left_right"
         THEN [slide_data EXCEPT
                 !.left = IF "left_title" \in DOMAIN template /\ @ # <<>>
                          THEN @ \o <<S("[emphasis] ") \o template.left_title>> ELSE @,
                 !.right = IF "right_title" \in DOMAIN template /\ @ # <<>>
                           THEN @ \o <<S("[emphasis] ") \o template.right_title>> ELSE @]
         ELSE slide_data

apply_template(slide_data, template_name) ==
    IF template_name \notin DOMAIN SLIDE_TEMPLATES THEN slide_data
    ELSE LET template == SLIDE_TEMPLATES[template_name] IN
         IF template.layout = "left_right"
         THEN [slide_data EXCEPT
                 !.left = IF "left_title" \in DOMAIN template /\ @ # <<>>
                          THEN <<S("[emphasis] ") \o template.left_title>> \o @ ELSE @,
                 !.right = IF "right_title" \in DOMAIN template /\ @ # <<>>
                           THEN <<S("[emphasis] ") \o template.right_title>> \o @ ELSE @]
         ELSE slide_data

-----------------------------------------------------------------------------
(* Slide builder                                                           *)

\* the geometry of build_presentation, in EMU (Inches(x) = int(x * 914400))
TITLE_LEFT == 1371600
TITLE_TOP == 548640
TITLE_HEIGHT == 731520
CONTENT_LEFT == 1371600
CONTENT_TOP == 1371600
CONTENT_WIDTH == 9601200
CONTENT_HEIGHT == 4572000
COLUMN_GAP == 365760
ROW_GAP == 274320
COLUMN_WIDTH == (CONTENT_WIDTH - COLUMN_GAP) \div 2

\* CONTENT_HEIGHT * 0.65 and CONTENT_HEIGHT * 0.35 - ROW_GAP
reading_height == (CONTENT_HEIGHT * 13) \div 20
questions_height == (CONTENT_HEIGHT * 7) \div 20 - ROW_GAP
half_height == (CONTENT_HEIGHT - ROW_GAP) \div 2

\* the font sizes: add_textbox's default and the four-box size
DefaultFontSize == 22
box_font_size == 18

\* LayoutMode with the four-box test ahead of the reading test
LayoutModeFourBoxFirst(s) ==
    IF \E r \in {"left_top", "right_top", "left_bottom", "right_bottom"} : s[r] # <<>>
    THEN "FourBox"
    ELSE IF s.left # <<>> \/ s.right # <<>>
    THEN "TwoColumn"
    ELSE "Single"

\* the if/elif chain of "Layout logic"
LayoutMode(s) ==
    IF s.left_top # <<>> /\ s.left_bottom # <<>>
       /\ ~(s.right_top # <<>> \/ s.right_bottom # <<>>)
    THEN "Reading"
    ELSE IF \E r \in {"left_top", "right_top", "left_bottom", "right_bottom"} : s[r] # <<>>
    THEN "FourBox"
    ELSE IF s.left # <<>> \/ s.right # <<>>
    THEN "TwoColumn"
    ELSE "Single"

\* the arguments of one add_textbox call
Call(left, top, width, height, lines, font_size, label) ==
    [left |-> left, top |-> top, width |-> width, height |-> height,
     lines |-> lines, font_size |-> font_size, label |-> label]

\* the add_textbox calls of each layout branch, in order
RegionCalls(s, mode) ==
    IF mode = "Reading" THEN
        <<Call(CONTENT_LEFT, CONTENT_TOP, Length(CONTENT_WIDTH),
               Plain(reading_height), s.left_top, DefaultFontSize, "ReadingText"),
          Call(CONTENT_LEFT, CONTENT_TOP + reading_height + ROW_GAP,
               Length(CONTENT_WIDTH), Plain(questions_height), s.left_bottom,
               DefaultFontSize, "ReadingQuestions")>>
    ELSE IF mode = "FourBox" THEN
        <<Call(CONTENT_LEFT, CONTENT_TOP, Plain(COLUMN_WIDTH),
               Plain(half_height), s.left_top, box_font_size, "LeftTop"),
          Call(CONTENT_LEFT + COLUMN_WIDTH + COLUMN_GAP, CONTENT_TOP,
               Plain(COLUMN_WIDTH), Plain(half_height), s.right_top,
               box_font_size, "RightTop"),
          Call(CONTENT_LEFT, CONTENT_TOP + half_height + ROW_GAP,
               Plain(COLUMN_WIDTH), Plain(half_height), s.left_bottom,
               box_font_size, "LeftBottom"),
          Call(CONTENT_LEFT + COLUMN_WIDTH + COLUMN_GAP,
               CONTENT_TOP + half_height + ROW_GAP,
               Plain(COLUMN_WIDTH), Plain(half_height), s.right_bottom,
               box_font_size, "RightBottom")>>
    ELSE IF mode = "TwoColumn" THEN
        <<Call(CONTENT_LEFT, CONTENT_TOP, Plain(COLUMN_WIDTH),
               Length(CONTENT_HEIGHT), s.left, DefaultFontSize, "Left"),
          Call(CONTENT_LEFT + COLUMN_WIDTH + COLUMN_GAP, CONTENT_TOP,
               Plain(COLUMN_WIDTH), Length(CONTENT_HEIGHT), s.right,
               DefaultFontSize, "Right")>>
    ELSE
        <<Call(CONTENT_LEFT, CONTENT_TOP, Length(CONTENT_WIDTH),
               Length(CONTENT_HEIGHT), s.content, DefaultFontSize, "Content")>>

\* what each of these calls adds and prints
RegionBoxes(s, mode, config) ==
    LET calls == RegionCalls(s, mode) IN
    [i \in 1..Len(calls) |->
        add_textbox(calls[i].left, calls[i].top, calls[i].width, calls[i].height,
                    calls[i].lines, calls[i].font_size, calls[i].label, config, "TOP")]

RECURSIVE Gather(_, _)
Gather(boxes, field) ==
    IF boxes = <<>> THEN <<>> ELSE boxes[1][field] \o Gather(Tail(boxes), field)

TitleBox(s, config) ==
    [kind |-> "textbox", name |-> <<"Title">>, left |-> TITLE_LEFT, top |-> TITLE_TOP,
     width |-> CONTENT_WIDTH, height |-> TITLE_HEIGHT, anchor |-> Some("MIDDLE"),
     paragraphs |-> <<[text |-> s.title,
                       font |-> [name |-> Some(config.font_name), size |-> Some(32),
                                 color |-> Some(config.title_color),
                                 bold |-> Some(TRUE), italic |-> None],
                       level |-> None, space_after |-> None]>>]

BackgroundShapes(config) ==
    IF PathExists(config.background_image)
    THEN <<[kind |-> "background", path |-> config.background_image]>>
    ELSE <<>>

FooterShapes(idx, total, config) ==
    IF config.enable_slide_numbers
    THEN <<[kind |-> "footer", idx |-> idx, total |-> total]>>
    ELSE <<>>

\* "notes_tf.add_paragraph().text = f'(bullet) {note}'"
NoteLines(notes) == [i \in 1..Len(notes) |-> <<"U+2022", " ">> \o notes[i]]

\* "if s.get('template'): s = apply_template(s, s['template'])"
Templated(s) ==
    IF s.template # None /\ s.template[1] # <<>>
    THEN apply_template(s, s.template[1]) ELSE s

\* one iteration of "for idx, s in enumerate(slides, start=1)": the record as
\* the template leaves it, the slide, the warnings, and whether it raised
BuildSlide(s0, idx, total, config) ==
    LET s == Templated(s0)
        mode == LayoutMode(s)
        boxes == RegionBoxes(s, mode, config)
        images == AddImages(s.images)
    IN [record |-> s,
        raised |-> images.raised,
        warnings |-> Gather(boxes, "warnings") \o images.warnings,
        slide |-> [layout |-> mode,
                   shapes |-> BackgroundShapes(config) \o <<TitleBox(s, config)>>
                              \o Gather(boxes, "shapes") \o images.shapes
                              \o (IF images.raised THEN <<>>
                                  ELSE FooterShapes(idx, total, config)),
                   notes |-> IF images.raised THEN <<>> ELSE NoteLines(s.notes)]]

-----------------------------------------------------------------------------
(* The web app (src/streamlit_app.py): sessions of one server process      *)

\* the sessions of the server process
Sessions == {"s1", "s2"}

\* the address of the dict DEFAULT_CONFIG["styles"], the one mutable object
\* a configuration refers to
StylesAddr == "DEFAULT_CONFIG.styles"

\* the module-level dict DEFAULT_CONFIG, its "styles" entry a reference
ModuleConfig == [DEFAULT_CONFIG EXCEPT !.styles = StylesAddr]

\* the colour picked in a colour picker and the fonts of the "Body Font" box,
\* the first one being its initial choice (index=0)
PickerColors == {<<255, 0, 0>>}
BodyFonts == <<S("Arial"), S("Calibri")>>

\* the style tags of the "Style Tags" expander
StyleTagPickers == {S("vocabulary"), S("question"), S("answer"), S("emphasis")}

\* dict.copy(): a new top-level dict whose values are the same objects
ShallowCopy(config) == config

\* the configuration a session's dict denotes: its references followed
Deref(config, h) == [config EXCEPT !.styles = h[@]]

\* a script run writes every widget's value into the configuration: the
\* colour pickers return the value found there, the font box its own state
WidgetsWritten(config, body_font) == [config EXCEPT !.font_name = body_font]

\* the fixed names of the temporary files, in the working directory that
\* all sessions share
TempFiles == {"temp_validation.txt", "temp_content.txt", "temp_presentation.pptx"}

\* a session that runs neither validate_content nor generate_presentation
IdleJob == [kind |-> "none", at |-> "idle", slides |-> <<>>, result |-> None]

AppInit ==
    /\ heap = [a \in {StylesAddr} |-> DefaultStyles]
    /\ session = [s \in Sessions |-> None]
    /\ expected = [s \in Sessions |-> None]
    /\ disk = [f \in TempFiles |-> None]
    /\ job = [s \in Sessions |-> IdleJob]
    /\ call = <<>>

\* the first script run of a session:
\* "if 'custom_config' not in st.session_state: ... = DEFAULT_CONFIG.copy()"
OpenSession(s) ==
    /\ session[s] = None
    /\ session' = [session EXCEPT ![s] =
          Some([custom_config |-> WidgetsWritten(ShallowCopy(ModuleConfig), BodyFonts[1]),
                body_font |-> BodyFonts[1]])]
    /\ expected' = [expected EXCEPT ![s] =
          Some(WidgetsWritten(DEFAULT_CONFIG, BodyFonts[1]))]
    /\ UNCHANGED heap
    /\ UNCHANGED <<pipeline_vars, disk, job, call>>

\* the user picks a title or text colour:
\* "st.session_state.custom_config["title_color"] = hex_to_rgb(title_color)"
SetColor(s, field, c) ==
    /\ session[s] # None
    /\ session' = [session EXCEPT ![s][1].custom_config[field] = c]
    /\ expected' = [expected EXCEPT ![s][1][field] = c]
    /\ UNCHANGED heap
    /\ UNCHANGED <<pipeline_vars, disk, job, call>>

\* the user picks a body font
SetBodyFont(s, f) ==
    /\ session[s] # None
    /\ session' = [session EXCEPT ![s][1].custom_config.font_name = f,
                                  ![s][1].body_font = f]
    /\ expected' = [expected EXCEPT ![s][1].font_name = f]
    /\ UNCHANGED heap
    /\ UNCHANGED <<pipeline_vars, disk, job, call>>

\* the user picks the colour of a style tag:
\* "st.session_state.custom_config["styles"][tag]["color"] = hex_to_rgb(...)"
SetStyleColor(s, tag, c) ==
    /\ session[s] # None
    /\ heap' = [heap EXCEPT ![session[s][1].custom_config.styles][tag].color = c]
    /\ expected' = [expected EXCEPT ![s][1].styles[tag].color = c]
    /\ UNCHANGED session
    /\ UNCHANGED <<pipeline_vars, disk, job, call>>

\* "Reset to Defaults": "custom_config = DEFAULT_CONFIG.copy(); st.rerun()"
ResetToDefaults(s) ==
    /\ session[s] # None
    /\ session' = [session EXCEPT ![s][1].custom_config =
          WidgetsWritten(ShallowCopy(ModuleConfig), session[s][1].body_font)]
    /\ expected' = [expected EXCEPT ![s] =
          Some(WidgetsWritten(DEFAULT_CONFIG, session[s][1].body_font))]
    /\ UNCHANGED heap
    /\ UNCHANGED <<pipeline_vars, disk, job, call>>

-----------------------------------------------------------------------------
(* The run: parse the file, validate the slides, build the presentation    *)

\* the longest input file explored, in lines
MaxLines == 4

\* the raw lines an input file is made of
InputLines ==
    {S("Slide 1"), S("Title: Demo"), S("Title: "), S("Content: Hello world"),
     S("---"), S("  "), S("# a comment"), S("  more text "),
     S("Left: [foo] a"), S("LeftTop: A"), S("LeftBottom: B"),
     S("Notes: n"), S("Template: vocabulary"),
     S("Image: a.png | width=4"), S("Image: no.png"), S("Image: a.png | width=abc")}

\* the four-line file of the end-to-end example
DemoFile ==
    <<S("Slide 1"), S("Title: Demo"), S("Content: Hello world"), S("---")>>

IsSlideLine(raw) == StartsWith(raw, S("Slide "))
IsTitleLine(raw) == StartsWith(raw, S("Title:"))

\* the history of the input: slide_lines counts the lines that start with
\* "Slide ", titled those of them that a "Title:" line has followed before the
\* next one, untitled tells that the latest one still waits for its "Title:"
\* line, and demo that the lines so far are the first lines of DemoFile
Observe(h, n, raw) ==
    [slide_lines |-> IF IsSlideLine(raw) THEN h.slide_lines + 1 ELSE h.slide_lines,
     titled |-> IF IsTitleLine(raw) /\ h.untitled THEN h.titled + 1 ELSE h.titled,
     untitled |-> IF IsSlideLine(raw) THEN TRUE
                  ELSE IF IsTitleLine(raw) THEN FALSE ELSE h.untitled,
     demo |-> h.demo /\ n < Len(DemoFile) /\ raw = DemoFile[n + 1]]

Init ==
    /\ pc = "parse"
    /\ current = EmptyRecord
    /\ section = NoSection
    /\ slides = <<>>
    /\ line = <<>>
    /\ nread = 0
    /\ seen = [slide_lines |-> 0, titled |-> 0, untitled |-> FALSE, demo |-> TRUE]
    /\ issues = <<>>
    /\ vidx = 0
    /\ deck = <<>>
    /\ warnings = <<>>
    /\ builds = 0
    /\ AppInit

\* the parser consumes one more line of a file made of these lines
ReadLineOf(lines) ==
    /\ pc = "parse"
    /\ nread < MaxLines
    /\ \E raw \in lines :
         LET st == ParseLine(PState(current, section, slides), raw) IN
         /\ current' = st.current
         /\ section' = st.section
         /\ slides' = st.slides
         /\ line' = raw
         /\ seen' = Observe(seen, nread, raw)
    /\ nread' = nread + 1
    /\ UNCHANGED <<pc, issues, vidx, deck, warnings, builds>>
    /\ UNCHANGED app_vars

ReadLine == ReadLineOf(InputLines)

\* the file ends: the in-progress record is emitted if it has a title
EndOfInput ==
    /\ pc = "parse"
    /\ slides' = EndOfFile(PState(current, section, slides))
    /\ pc' = IF slides' = <<>> THEN "build" ELSE "validate"
    /\ UNCHANGED <<current, section, line, nread, seen, issues, vidx, deck, warnings, builds>>
    /\ UNCHANGED app_vars

\* "for i, slide in enumerate(slides, 1): all_issues.extend(validate_slide(...))"
ValidateSlide ==
    /\ pc = "validate"
    /\ vidx < Len(slides)
    /\ issues' = issues \o validate_slide(slides[vidx + 1], vidx + 1)
    /\ vidx' = vidx + 1
    /\ pc' = IF vidx' = Len(slides) THEN "build" ELSE "validate"
    /\ UNCHANGED <<current, section, slides, line, nread, seen, deck, warnings, builds>>
    /\ UNCHANGED app_vars

\* build_presentation adds the next slide; an exception ends the build
AddSlide ==
    /\ pc = "build"
    /\ Len(deck) < Len(slides)
    /\ LET idx == Len(deck) + 1
           b == BuildSlide(slides[idx], idx, Len(slides), DEFAULT_CONFIG)
       IN /\ slides' = [slides EXCEPT ![idx] = b.record]
          /\ deck' = Append(deck, b.slide)
          /\ warnings' = warnings \o b.warnings
          /\ pc' = IF b.raised THEN "failed" ELSE "build"
    /\ UNCHANGED <<current, section, line, nread, seen, issues, vidx, builds>>
    /\ UNCHANGED app_vars

\* "prs.save(output_name)"
Save ==
    /\ pc = "build"
    /\ Len(deck) = Len(slides)
    /\ pc' = "done"
    /\ builds' = builds + 1
    /\ UNCHANGED <<current, section, slides, line, nread, seen, issues, vidx, deck, warnings>>
    /\ UNCHANGED app_vars

Next == ReadLine \/ EndOfInput \/ ValidateSlide \/ AddSlide \/ Save

Spec == Init /\ [][Next]_vars

-----------------------------------------------------------------------------
(* validate_slide and build_presentation on a record of any shape          *)

Rep(c, n) == [i \in 1..n |-> c]

OkImage == [k \in {S("path"), S("width")} |-> IF k = S("path") THEN S("a.png") ELSE S("4")]
MissingImage == [k \in {S("path")} |-> S("no.png")]

\* the records the validator and the builder are run on: every combination
\* of these titles, regions, notes, images and templates
Records ==
    [title : {<<>>, S("Demo"), Rep("x", TitleLimit), Rep("x", TitleLimit + 1)},
     content : {<<>>, <<S("Hello world")>>, <<S("[foo] x"), S("y")>>,
                <<S("[step] a"), S("[foo] b")>>},
     left : {<<>>, <<S("a")>>},
     right : {<<>>, <<S("[vocabulary] w"), S("[bar] v")>>},
     left_top : {<<>>, <<S("p")>>},
     right_top : {<<>>, <<S("q")>>},
     left_bottom : {<<>>, <<S("r")>>},
     right_bottom : {<<>>, <<S("[baz] s")>>},
     notes : {<<>>, <<S("n")>>},
     images : {<<>>, <<OkImage>>, <<MissingImage, OkImage, MissingImage>>},
     template : {None, Some(S("vocabulary"))}]

InitRecords ==
    /\ pc = "validate"
    /\ current = EmptyRecord
    /\ section = NoSection
    /\ slides \in {<<r>> : r \in Records}
    /\ line = <<>>
    /\ nread = 0
    /\ seen = [slide_lines |-> 0, titled |-> 0, untitled |-> FALSE, demo |-> TRUE]
    /\ issues = <<>>
    /\ vidx = 0
    /\ deck = <<>>
    /\ warnings = <<>>
    /\ builds = 0
    /\ AppInit

NextRecords == ValidateSlide \/ AddSlide \/ Save

SpecRecords == InitRecords /\ [][NextRecords]_vars

-----------------------------------------------------------------------------
(* The run on files of section headers and their continuation lines        *)

\* the raw lines of these files
SectionLines ==
    {S("Slide 1"), S("Title: Demo"),
     S("LeftBottom: 1. A? 2. B"), S("LeftBottom: What? Why"), S("LeftBottom: B"),
     S("LeftBottom:"), S("2. C? 3. D"), S("  why? Because"),
     S("Content: see Content: above"), S("Right: r ")}

ReadSectionLine == ReadLineOf(SectionLines)

InitSections == Init

NextSections == ReadSectionLine \/ EndOfInput \/ ValidateSlide \/ AddSlide \/ Save

SpecSections == InitSections /\ [][NextSections]_vars

-----------------------------------------------------------------------------
(* The run on files with blank lines and headers that have no text         *)

\* the raw lines of these files: headers with nothing or white space after
\* them, blank lines, and "LeftBottom:" lines whose remainder is little more
\* than a question marker
BlankLines ==
    {S("Slide 1"), S("Title: Demo"), S("Content:"), S("Content:  "), S("Notes: "),
     S("   "), S("---"), S("  x "), S("Left: Left:"),
     S("LeftBottom: 1."), S("LeftBottom: ? ?2.")}

ReadBlankLine == ReadLineOf(BlankLines)

NextBlanks == ReadBlankLine \/ EndOfInput \/ ValidateSlide \/ AddSlide \/ Save

SpecBlanks == Init /\ [][NextBlanks]_vars

-----------------------------------------------------------------------------
(* build_presentation called again and again on the same list of records   *)

\* the most calls of build_presentation on one list
MaxBuilds == 3

\* the regions left and right of the records of these lists
RebuildLefts == {<<>>, <<S("a")>>}
RebuildRights == {<<>>, <<S("v"), S("w")>>}

\* the records: with and without left and right, with no template, each of
\* the three templates, an unknown one and an empty name; and a reading
\* record whose three questions come up step by step
RebuildRecords ==
    {[EmptyRecord EXCEPT !.title = S("Demo"), !.content = <<S("x")>>,
                         !.left = l, !.right = r, !.template = t] :
        l \in RebuildLefts, r \in RebuildRights,
        t \in {None, Some(S("vocabulary")), Some(S("comparison")),
               Some(S("reading")), Some(S("foo")), Some(<<>>)}}
    \cup {[EmptyRecord EXCEPT !.title = S("Demo"), !.left_top = <<S("t")>>,
                              !.left_bottom = <<S("[step] a"), S("b"), S("c")>>]}

InitRebuild ==
    /\ pc = "build"
    /\ current = EmptyRecord
    /\ section = NoSection
    /\ slides \in {<<r>> : r \in RebuildRecords}
                  \cup {<<r1, r2>> : r1 \in RebuildRecords, r2 \in RebuildRecords}
    /\ line = <<>>
    /\ nread = 0
    /\ seen = [slide_lines |-> 0, titled |-> 0, untitled |-> FALSE, demo |-> TRUE]
    /\ issues = <<>>
    /\ vidx = 0
    /\ deck = <<>>
    /\ warnings = <<>>
    /\ builds = 0
    /\ AppInit

\* build_presentation is called once more with the list the earlier call was
\* given: a new presentation, the same record objects
BuildAgain ==
    /\ pc = "done"
    /\ builds < MaxBuilds
    /\ pc' = "build"
    /\ deck' = <<>>
    /\ UNCHANGED <<current, section, slides, line, nread, seen, issues, vidx,
                   warnings, builds>>
    /\ UNCHANGED app_vars

NextRebuild == AddSlide \/ Save \/ BuildAgain

SpecRebuild == InitRebuild /\ [][NextRebuild]_vars

-----------------------------------------------------------------------------
(* The sessions of the web app customising their configurations            *)

\* the web app with its sessions customising their configurations; the
\* generator itself is not run
InitSessions == Init

NextSessions ==
    \E s \in Sessions :
        \/ OpenSession(s)
        \/ \E c \in PickerColors : SetColor(s, "title_color", c)
        \/ \E c \in PickerColors : SetColor(s, "text_color", c)
        \/ \E c \in PickerColors, tag \in StyleTagPickers : SetStyleColor(s, tag, c)
        \/ \E i \in DOMAIN BodyFonts : SetBodyFont(s, BodyFonts[i])
        \/ ResetToDefaults(s)

SpecSessions == InitSessions /\ [][NextSessions]_vars

-----------------------------------------------------------------------------
(* validate_content and generate_presentation run by concurrent sessions   *)

\* st.session_state.content of each session, as lines
UserContent ==
    [s \in Sessions |->
        IF s = "s1" THEN DemoFile
        ELSE <<S("Slide 1"), S("Title: "), S("Title: Demo"), S("Left: [foo] a")>>]

\* parse_content_file on the lines of a file: every line, then the end
RECURSIVE ParseLines(_, _)
ParseLines(st, lines) ==
    IF lines = <<>> THEN EndOfFile(st)
    ELSE ParseLines(ParseLine(st, lines[1]), Tail(lines))

ParseFile(lines) == ParseLines(PState(EmptyRecord, NoSection, <<>>), lines)

\* "for i, slide in enumerate(slides, 1): all_issues.extend(validate_slide(...))"
RECURSIVE ValidateAll(_, _)
ValidateAll(sl, i) ==
    IF i > Len(sl) THEN <<>> ELSE validate_slide(sl[i], i) \o ValidateAll(sl, i + 1)

\* build_presentation: the slides of the saved file, or an exception
RECURSIVE BuildAll(_, _, _)
BuildAll(sl, i, config) ==
    IF i > Len(sl) THEN [raised |-> FALSE, deck |-> <<>>]
    ELSE LET b == BuildSlide(sl[i], i, Len(sl), config) IN
         IF b.raised THEN [raised |-> TRUE, deck |-> <<>>]
         ELSE LET rest == BuildAll(sl, i + 1, config) IN
              [raised |-> rest.raised,
               deck |-> IF rest.raised THEN <<>> ELSE <<b.slide>> \o rest.deck]

\* the steps of validate_content and of generate_presentation, in order; the
\* test os.path.exists and the call os.remove are two steps
JobSteps ==
    [validate |-> <<"write", "parse", "test_input", "remove_input", "done">>,
     generate |-> <<"write", "parse", "build", "read", "test_input", "remove_input",
                    "test_output", "remove_output", "done">>]

\* the step after step `at` of a job of this kind
StepAfter(kind, at) ==
    LET steps == JobSteps[kind]
        i == CHOOSE k \in DOMAIN steps : steps[k] = at
    IN steps[i + 1]

InputFile(kind) == IF kind = "validate" THEN "temp_validation.txt" ELSE "temp_content.txt"

JobUnchanged == UNCHANGED <<pipeline_vars, heap, session, expected, call>>

\* the user presses "Validate" or "Generate"
StartJob(s, kind) ==
    /\ session[s] # None
    /\ job[s].at = "idle"
    /\ job' = [job EXCEPT ![s] = [IdleJob EXCEPT !.kind = kind, !.at = "write"]]
    /\ UNCHANGED disk
    /\ JobUnchanged

\* "with open(temp_file, 'w') as f: f.write(st.session_state.content)"
WriteContent(s) ==
    /\ job[s].at = "write"
    /\ disk' = [disk EXCEPT ![InputFile(job[s].kind)] = Some(UserContent[s])]
    /\ job' = [job EXCEPT ![s].at = "parse"]
    /\ JobUnchanged

\* "slides = parse_content_file(temp_file)", and for validate_content the
\* validation of the slides; a missing file is an exception
ParseContent(s) ==
    /\ job[s].at = "parse"
    /\ LET file == disk[InputFile(job[s].kind)] IN
       IF file = None
       THEN job' = [job EXCEPT ![s].at = "error"]
       ELSE LET parsed == ParseFile(file[1]) IN
            job' = [job EXCEPT
               ![s].slides = parsed,
               ![s].result = IF job[s].kind = "validate"
                             THEN Some([slide_count |-> Len(parsed),
                                        issues |-> ValidateAll(parsed, 1)])
                             ELSE None,
               ![s].at = StepAfter(job[s].kind, "parse")]
    /\ UNCHANGED disk
    /\ JobUnchanged

\* "build_presentation(slides, temp_output, st.session_state.custom_config)"
BuildDeck(s) ==
    /\ job[s].at = "build"
    /\ LET built == BuildAll(job[s].slides, 1, Deref(session[s][1].custom_config, heap)) IN
       IF built.raised
       THEN /\ job' = [job EXCEPT ![s].at = "error"]
            /\ UNCHANGED disk
       ELSE /\ disk' = [disk EXCEPT !["temp_presentation.pptx"] = Some(built.deck)]
            /\ job' = [job EXCEPT ![s].at = "read"]
    /\ JobUnchanged

\* "with open(temp_output, 'rb') as f: pptx_data = f.read()", offered for
\* download
ReadDeck(s) ==
    /\ job[s].at = "read"
    /\ job' = IF disk["temp_presentation.pptx"] = None
              THEN [job EXCEPT ![s].at = "error"]
              ELSE [job EXCEPT ![s].result = disk["temp_presentation.pptx"],
                               ![s].at = "test_input"]
    /\ UNCHANGED disk
    /\ JobUnchanged

\* "if os.path.exists(file):"
TestFile(s, which, file) ==
    /\ job[s].at = "test_" \o which
    /\ job' = [job EXCEPT ![s].at =
                 IF disk[file] # None THEN "remove_" \o which
                 ELSE StepAfter(job[s].kind, "remove_" \o which)]
    /\ UNCHANGED disk
    /\ JobUnchanged

\* "os.remove(file)"; a file that is gone is an exception
RemoveFile(s, which, file) ==
    /\ job[s].at = "remove_" \o which
    /\ IF disk[file] = None
       THEN /\ job' = [job EXCEPT ![s].at = "error"]
            /\ UNCHANGED disk
       ELSE /\ disk' = [disk EXCEPT ![file] = None]
            /\ job' = [job EXCEPT ![s].at = StepAfter(job[s].kind, "remove_" \o which)]
    /\ JobUnchanged

InitJobs == Init

NextJobs ==
    \E s \in Sessions :
        \/ OpenSession(s)
        \/ \E kind \in {"validate", "generate"} : StartJob(s, kind)
        \/ WriteContent(s)
        \/ ParseContent(s)
        \/ BuildDeck(s)
        \/ ReadDeck(s)
        \/ TestFile(s, "input", InputFile(job[s].kind))
        \/ TestFile(s, "output", "temp_presentation.pptx")
        \/ RemoveFile(s, "input", InputFile(job[s].kind))
        \/ RemoveFile(s, "output", "temp_presentation.pptx")

SpecJobs == InitJobs /\ [][NextJobs]_vars

-----------------------------------------------------------------------------
(* The library functions called on their own                               *)

\* the longest text, in characters, a function is called on
MaxTextLen == 4

\* every text of at most n characters of the set
TextsOver(chars, n) == UNION {[1..k -> chars] : k \in 0..n}

\* one call of a function: its name, its arguments and what it returns
Called(fn, args, result) ==
    /\ call = None
    /\ call' = Some([fn |-> fn, args |-> args, result |-> result])
    /\ UNCHANGED <<pipeline_vars, heap, session, expected, disk, job>>

\* the texts split_questions is called on
QuestionExample == S("What is X? 2. What is Y?")
QuestionTexts ==
    TextsOver({"a", "B", "1", ".", "?", " "}, MaxTextLen) \cup {QuestionExample}

CallSplitQuestions ==
    /\ call = None
    /\ \E text \in QuestionTexts :
           Called("split_questions", <<text>>, split_questions(text))

\* the longest sequence of lines is_list_content is called on
MaxListLines == 4

\* the lines is_list_content is called on: one for each bullet pattern, a
\* plain one, an indented one and an empty one
ListLines ==
    {S("- a"), S("1. a"), S("b) x"), S("A. x"), S("plain"), S("  * y"), <<>>}

CallIsListContent ==
    /\ call = None
    /\ \E lines \in UNION {[1..k -> ListLines] : k \in 0..MaxListLines} :
           Called("is_list_content", <<lines>>, is_list_content(lines))

\* the most words of a text check_text_overflow is called on
MaxWords == 3

\* the words of these texts: short, longer, and longer than a narrow line
OverflowWords == {S("a"), S("word"), S("extraordinarily")}

\* the words joined by single spaces
RECURSIVE JoinWords(_)
JoinWords(ws) ==
    IF ws = <<>> THEN <<>>
    ELSE IF Len(ws) = 1 THEN ws[1]
    ELSE ws[1] \o <<" ">> \o JoinWords(Tail(ws))

\* the font sizes, in points, and the box sizes: a Length of 1 inch or of
\* the content width, a plain number of inches
FontSizes == {12, 22, 32, 72}
BoxWidths == {Length(914400), Length(CONTENT_WIDTH), Plain(2)}
BoxHeights == {Length(914400), Plain(3)}

\* check_text_overflow called twice on the same text and box, with a font
\* size and one that is not smaller
CallCheckTextOverflow ==
    /\ call = None
    /\ \E ws \in UNION {[1..k -> OverflowWords] : k \in 0..MaxWords},
          f1 \in FontSizes, w \in BoxWidths, h \in BoxHeights :
         \E f2 \in {f \in FontSizes : f >= f1} :
           Called("check_text_overflow", <<JoinWords(ws), f1, f2, w, h>>,
                  <<check_text_overflow(JoinWords(ws), f1, w, h),
                    check_text_overflow(JoinWords(ws), f2, w, h)>>)

\* the records and the template names apply_template is called on
TemplateRecords ==
    {[EmptyRecord EXCEPT !.title = S("Demo"), !.content = c, !.left = l, !.right = r,
                         !.left_top = lt, !.left_bottom = lb, !.right_top = rt,
                         !.notes = n, !.template = Some(S("vocabulary"))] :
        c \in {<<>>, <<S("x")>>},
        l \in {<<>>, <<S("a")>>, <<S("a"), S("[question] b")>>},
        r \in {<<>>, <<S("v")>>, <<S("v"), S("w")>>},
        lt \in {<<>>, <<S("p")>>}, lb \in {<<>>, <<S("q")>>}, rt \in {<<>>, <<S("s")>>},
        n \in {<<>>, <<S("n")>>}}
TemplateNames == {S("vocabulary"), S("reading"), S("comparison"), S("foo"), <<>>}

CallApplyTemplate ==
    /\ call = None
    /\ \E record \in TemplateRecords, name \in TemplateNames :
           Called("apply_template", <<record, name>>, apply_template(record, name))

\* the most pieces of a text process_math is called on
MaxPieces == 3

\* the pieces of these texts: the marks, a digit, the parts of "<=", two
\* Greek names and ordinary letters
MathPieces ==
    {S("x"), S("^"), S("_"), S("2"), S("<"), S("="), S("pi"), S("e"), S("alpha"), S(" ")}

MathExample == S("x^2 + H_2O <= pi")

\* the pieces one after the other
RECURSIVE Concat(_)
Concat(ps) == IF ps = <<>> THEN <<>> ELSE ps[1] \o Concat(Tail(ps))

CallProcessMath ==
    /\ call = None
    /\ \E text \in {Concat(ps) : ps \in UNION {[1..k -> MathPieces] : k \in 0..MaxPieces}}
                   \cup {MathExample} :
           Called("process_math", <<text>>, process_math(text))

\* the most markers at the front of a line clean_bullet_marker is called on
MaxMarkers == 3

\* a marker of each kind with its following space, and plain indentation
MarkerPieces == {S("- "), S("12. "), S("a) "), S("A. "), S(" ")}

\* up to MaxMarkers pieces, then the text of the line or nothing
MarkedLines ==
    {Concat(ps) \o rest :
        ps \in UNION {[1..k -> MarkerPieces] : k \in 0..MaxMarkers},
        rest \in {S("text"), <<>>}}

CallCleanBulletMarker ==
    /\ call = None
    /\ \E text \in MarkedLines :
           Called("clean_bullet_marker", <<text>>, clean_bullet_marker(text))

\* the most lines of a region add_textbox is called on
MaxRegionLines == 3

\* lines with the step marker in either case, without it, blank, and of a list
StepLines ==
    {S("[step] a"), S("b"), S("[STEP]c [step] pi"), S(" "), S("- x")}

\* the joined lengths around the thresholds of the automatic font size
ShrinkLengths == {300, 301, 500, 501, 700, 701, 1000, 1001}

\* the regions: short ones of any of the lines above, and one-line regions of
\* the lengths above, where the line ends with the name of a Greek letter or
\* does not
RegionLines ==
    UNION {[1..k -> StepLines] : k \in 1..MaxRegionLines}
    \cup {<<Rep("a", n)>> : n \in ShrinkLengths}
    \cup {<<Rep("a", n - 2) \o S("pi")>> : n \in ShrinkLengths}

\* the requested font sizes: the builder's two, a smaller one and zero
RequestedSizes == {0, 12, DefaultFontSize, box_font_size}

\* a region as large as the content area, and one an inch wide and as high
\* as a step box, which a few words overflow
RegionSizes ==
    {<<Length(CONTENT_WIDTH), Length(CONTENT_HEIGHT)>>,
     <<Length(914400), Length(StepBoxHeight)>>}

\* one call of add_textbox, made with enable_overflow_warnings off and on
CallAddTextbox ==
    /\ call = None
    /\ \E lines \in RegionLines, font_size \in RequestedSizes, wh \in RegionSizes :
           Called("add_textbox", <<lines, font_size, wh[1], wh[2]>>,
                  [warn \in BOOLEAN |->
                      add_textbox(CONTENT_LEFT, CONTENT_TOP, wh[1], wh[2], lines,
                                  font_size, "Content",
                                  [DEFAULT_CONFIG EXCEPT
                                      !.enable_overflow_warnings = warn],
                                  "TOP")])

InitCalls == Init

NextCalls ==
    \/ CallSplitQuestions
    \/ CallIsListContent
    \/ CallCheckTextOverflow
    \/ CallApplyTemplate
    \/ CallProcessMath
    \/ CallCleanBulletMarker
    \/ CallAddTextbox

SpecCalls == InitCalls /\ [][NextCalls]_vars

-----------------------------------------------------------------------------
(* Properties of the parser                                                *)

\* C1: when the parse has ended, the number of records equals the number of
\* lines starting with "Slide " that a "Title:" line has followed before the
\* next such line or the end of the input; so N such lines, each followed by
\* its "Title:" line, give exactly N records, and one without gives none.
SlideCountInvariant ==
    pc # "parse" => Len(slides) = seen.titled

\* C2: after a line starting with "Slide " the in-progress record is a fresh
\* empty record and no section is active, whether or not the record before
\* had a title.
SlideLineResets ==
    pc = "parse" /\ nread > 0 /\ IsSlideLine(line)
        => current = EmptyRecord /\ section = NoSection

\* C3: every record of the output has a non-empty title; the parser only
\* ever appends the in-progress record to the output, so the records are in
\* document order; and at the end of the input the in-progress record is
\* appended exactly when its title is non-empty.
OutputTitledInOrder ==
    [][pc = "parse" =>
          /\ \A i \in 1..Len(slides') : slides'[i].title # <<>>
          /\ slides' \in {slides, Append(slides, current)}
          /\ pc' # "parse" =>
                ((slides' = Append(slides, current)) <=> (current.title # <<>>))
      ]_vars

\* two records are out, the second one emitted at the end of the input
TwoRecordsEmitted ==
    pc # "parse" /\ Len(slides) = 2 /\ slides[2] = current

\* C5: the four lines "Slide 1", "Title: Demo", "Content: Hello world", "---"
\* parse to exactly one record, with title "Demo", content <<"Hello world">>
\* and everything else empty; validation reports no issue for it; and the
\* builder lays it out as Single.
DemoEndToEnd ==
    seen.demo /\ nread = Len(DemoFile) /\ pc # "parse" =>
        /\ slides = <<[EmptyRecord EXCEPT !.title = S("Demo"),
                                          !.content = <<S("Hello world")>>]>>
        /\ issues = <<>>
        /\ pc # "failed"
        /\ deck # <<>> => deck[1].layout = "Single"

\* the demo file has been parsed, validated and built
DemoBuilt ==
    /\ seen.demo /\ nread = Len(DemoFile) /\ pc = "done"
    /\ vidx = 1 /\ Len(deck) = 1 /\ deck[1].layout = "Single"

\* C6: a line whose first character is "#" changes neither the in-progress
\* record nor the active section nor the output, in every parser state.
CommentIgnored ==
    [][pc = "parse" /\ nread' = nread + 1 /\ line'[1] = "#"
          => UNCHANGED <<current, section, slides>>]_vars

\* the header tokens and directives the parser recognises
Keywords ==
    {S("Slide "), S("Template:"), S("Image:"), S("Title:"), S("Content:"),
     S("Left:"), S("Right:"), S("LeftTop:"), S("RightTop:"), S("LeftBottom:"),
     S("RightBottom:"), S("Notes:")}

\* neither blank, nor the separator, nor a directive or header line
IsBareLine(raw) ==
    /\ RStrip(raw) # <<>>
    /\ RStrip(raw) # S("---")
    /\ \A kw \in Keywords : ~StartsWith(RStrip(raw), kw)

ImageNeverAborts ==
    /\ pc # "failed"
    /\ pc = "done" => Len(deck) = Len(slides)

\* what follows the header at the start of the line, trimmed
Remainder(raw, header) == Strip(Drop(RStrip(raw), Len(S(header))))

\* the remainder holds one of the markers "1.", "2.", "3."
HasQuestionMarker(text) == \E q \in {S("1."), S("2."), S("3.")} : Contains(text, q)

\* C19: a "LeftBottom:" line makes left_bottom the active section; when its
\* remainder holds "1.", "2." or "3." the fragments of split_questions of
\* the remainder are appended to left_bottom, in order, and nothing else;
\* otherwise the remainder is appended as one entry (nothing when it is
\* empty); a bare line that continues left_bottom is appended whole, markers
\* or not.
LeftBottomSplit ==
    [][pc = "parse" /\ nread' = nread + 1 =>
          /\ StartsWith(line', S("LeftBottom:")) =>
                LET r == Remainder(line', "LeftBottom:") IN
                /\ section' = "left_bottom"
                /\ slides' = slides
                /\ current' = [current EXCEPT !.left_bottom =
                                 @ \o (IF HasQuestionMarker(r) THEN split_questions(r)
                                       ELSE IF r = <<>> THEN <<>> ELSE <<r>>)]
          /\ (IsBareLine(line') /\ section = "left_bottom") =>
                current' = [current EXCEPT !.left_bottom = Append(@, RStrip(line'))]
      ]_vars

\* a header with two numbered questions gave two entries, and a bare line
\* with two numbered questions was then appended as one
QuestionsSplitThenContinued ==
    /\ pc = "parse" /\ nread >= 2 /\ section = "left_bottom"
    /\ line = S("2. C? 3. D")
    /\ current.left_bottom = <<S("1. A?"), S("2. B?"), S("2. C? 3. D")>>

\* the header tokens and the region of each
HeaderRegions ==
    [Content |-> "content", Left |-> "left", Right |-> "right", LeftTop |-> "left_top",
     RightTop |-> "right_top", LeftBottom |-> "left_bottom",
     RightBottom |-> "right_bottom", Notes |-> "notes"]

\* C20: a header line "H: r" makes H's region the active section and stores
\* r, the rest of the line after the leading header token, trimmed - also
\* when r holds the header token again; "Title: r" sets the title to r and
\* leaves no section active.
HeaderStoresRemainder ==
    [][pc = "parse" /\ nread' = nread + 1 =>
          /\ \A h \in DOMAIN HeaderRegions :
                StartsWith(line', S(h \o ":")) =>
                   LET r == Remainder(line', h \o ":") IN
                   /\ section' = HeaderRegions[h]
                   /\ (h # "LeftBottom" /\ r # <<>>) =>
                         current'[HeaderRegions[h]] = Append(current[HeaderRegions[h]], r)
          /\ StartsWith(line', S("Title:")) =>
                /\ section' = NoSection
                /\ current'.title = Remainder(line', "Title:")
      ]_vars

-----------------------------------------------------------------------------
(* Properties of the validator and the builder                             *)

\* the four box regions of a record
BoxRegions == {"left_top", "right_top", "left_bottom", "right_bottom"}

\* the layout mode the priority order gives a record
PriorityMode(s) ==
    CHOOSE m \in {"Reading", "FourBox", "TwoColumn", "Single"} :
        LET reading == /\ s.left_top # <<>> /\ s.left_bottom # <<>>
                       /\ s.right_top = <<>> /\ s.right_bottom = <<>>
            fourbox == \E r \in BoxRegions : s[r] # <<>>
            twocol  == s.left # <<>> \/ s.right # <<>>
        IN /\ (m = "Reading") <=> reading
           /\ (m = "FourBox") <=> (~reading /\ fourbox)
           /\ (m = "TwoColumn") <=> (~reading /\ ~fourbox /\ twocol)
           /\ (m = "Single") <=> (~reading /\ ~fourbox /\ ~twocol)

\* the region each text box of a layout mode shows
RegionOfLabel ==
    [Reading   |-> [ReadingText |-> "left_top", ReadingQuestions |-> "left_bottom"],
     FourBox   |-> [LeftTop |-> "left_top", RightTop |-> "right_top",
                    LeftBottom |-> "left_bottom", RightBottom |-> "right_bottom"],
     TwoColumn |-> [Left |-> "left", Right |-> "right"],
     Single    |-> [Content |-> "content"]]

\* the labels of the region text boxes of a built slide
RegionLabels(sl) ==
    {sl.shapes[j].name[1] : j \in {k \in 1..Len(sl.shapes) :
        sl.shapes[k].kind = "textbox" /\ sl.shapes[k].name[1] # "Title"}}

\* C4: every built slide has the one layout mode the priority order gives
\* its record (Reading, else FourBox, else TwoColumn, else Single), and its
\* region text boxes are those of that mode whose region is non-empty.
LayoutPriority ==
    \A i \in 1..Len(deck) :
        LET mode == PriorityMode(slides[i]) IN
        /\ deck[i].layout = mode
        /\ RegionLabels(deck[i]) =
             {lab \in DOMAIN RegionOfLabel[mode] :
                 slides[i][RegionOfLabel[mode][lab]] # <<>>}

\* a record with the two left boxes, content, left and right is built as
\* Reading, and one with the right top box as well as FourBox
ReadingOverOtherRegions ==
    /\ Len(deck) = 1
    /\ slides[1].left_top # <<>> /\ slides[1].left_bottom # <<>>
    /\ slides[1].content # <<>> /\ slides[1].left # <<>> /\ slides[1].right # <<>>
    /\ \/ /\ slides[1].right_top = <<>> /\ slides[1].right_bottom = <<>>
          /\ deck[1].layout = "Reading"
          /\ RegionLabels(deck[1]) = {"ReadingText", "ReadingQuestions"}
       \/ /\ slides[1].right_top # <<>> /\ slides[1].right_bottom = <<>>
          /\ deck[1].layout = "FourBox"
          /\ RegionLabels(deck[1]) = {"LeftTop", "RightTop", "LeftBottom"}

\* the line starts with a bracket tag that names no configured style
UnknownTag(ln) ==
    /\ parse_styled_text(ln)[1] # None
    /\ parse_styled_text(ln)[1][1] \notin DOMAIN DEFAULT_CONFIG.styles

\* the size and colour of an untagged line of a region of the mode
BodyFont(mode, lines) ==
    [size |-> Some(AutoFontSize(IF mode = "FourBox" THEN box_font_size
                                ELSE DefaultFontSize,
                                Len(process_math(Join(lines))))),
     color |-> Some(DEFAULT_CONFIG.text_color)]

\* C8: a line whose leading bracket tag names no configured style is
\* rendered with the font size and the text colour of an untagged line of
\* the same region, in the normal text box and in the step boxes, and the
\* build raises no error.
UnknownTagFallsBack ==
    /\ pc # "failed"
    /\ \A i \in 1..Len(deck) : \A j \in 1..Len(deck[i].shapes) :
        LET sh == deck[i].shapes[j] IN
        (sh.kind = "textbox" /\ sh.name[1] # "Title") =>
            LET lines == slides[i][RegionOfLabel[deck[i].layout][sh.name[1]]]
                body == BodyFont(deck[i].layout, lines)
            IN IF Len(sh.name) = 1
               THEN \A k \in 1..Len(lines) :
                       UnknownTag(lines[k]) =>
                           /\ sh.paragraphs[k].font.size = body.size
                           /\ sh.paragraphs[k].font.color = body.color
               ELSE UnknownTag(RemoveStep(lines[sh.name[3]])) =>
                           /\ sh.paragraphs[1].font.size = body.size
                           /\ sh.paragraphs[1].font.color = body.color

\* the kinds of issue validate_slide reports
IssueKinds ==
    {"Missing title", "Title very long", "No content defined", "Image not found"}

\* C9: validating a record adds, for its position, exactly: one "Missing
\* title" issue iff the title is empty, else one long-title issue iff the
\* title is longer than 100 characters; one "No content defined" issue iff
\* the seven region lists are all empty, whatever the notes and images; one
\* issue per image whose path does not exist; it raises nothing and leaves
\* the record unchanged.
ValidateExact ==
    [][vidx' = vidx + 1 =>
          LET sd == slides[vidx']
              new == SubSeq(issues', Len(issues) + 1, Len(issues'))
              N(kind) == Cardinality({i \in 1..Len(new) : new[i].kind = kind})
          IN /\ slides' = slides
             /\ pc' \in {"validate", "build"}
             /\ SubSeq(issues', 1, Len(issues)) = issues
             /\ \A i \in 1..Len(new) :
                   new[i].slide = vidx' /\ new[i].kind \in IssueKinds
             /\ N("Missing title") = IF sd.title = <<>> THEN 1 ELSE 0
             /\ N("Title very long") =
                   IF sd.title # <<>> /\ Len(sd.title) > 100 THEN 1 ELSE 0
             /\ N("No content defined") =
                   IF \A r \in {"content", "left", "right"} \cup BoxRegions :
                          sd[r] = <<>>
                   THEN 1 ELSE 0
             /\ N("Image not found") =
                   Cardinality({j \in 1..Len(sd.images) :
                                  sd.images[j][S("path")] \notin ExistingFiles})
      ]_vars

\* a record with a title of 101 characters, notes and images but no region,
\* two of its images missing, was validated: a long-title issue, a
\* no-content issue and two image issues
LongTitleNotesOnlyValidated ==
    /\ vidx = 1
    /\ Len(slides[1].title) = 101
    /\ \A r \in {"content", "left", "right"} \cup BoxRegions : slides[1][r] = <<>>
    /\ slides[1].notes # <<>> /\ Len(slides[1].images) = 3
    /\ Len(issues) = 4
    /\ issues[1].kind = "Title very long" /\ issues[2].kind = "No content defined"
    /\ issues[3].kind = "Image not found" /\ issues[4].kind = "Image not found"

-----------------------------------------------------------------------------
(* Properties of the web app                                               *)

\* C11: whatever the sessions do in the sidebar, in any order, the
\* configuration a session sees is the one its own actions made (the
\* defaults, its own colour, font and style-tag choices, its own resets),
\* and the module-level default styles keep their original values.
SessionsIsolated ==
    /\ heap[ModuleConfig.styles] = DefaultStyles
    /\ \A s \in Sessions :
          session[s] # None =>
              Deref(session[s][1].custom_config, heap) = expected[s][1]

\* what a session's own content gives: its validation result, its deck
OwnResult(s, kind) ==
    LET parsed == ParseFile(UserContent[s]) IN
    IF kind = "validate"
    THEN [slide_count |-> Len(parsed), issues |-> ValidateAll(parsed, 1)]
    ELSE BuildAll(parsed, 1, Deref(session[s][1].custom_config, heap)).deck

\* C12: under every interleaving of the steps of two sessions running
\* validate_content or generate_presentation, no run ends on an exception,
\* and the validation result or the deck a session obtains is the one of
\* its own content.
BuildsIsolated ==
    \A s \in Sessions :
        /\ job[s].at # "error"
        /\ job[s].result # None => job[s].result[1] = OwnResult(s, job[s].kind)

-----------------------------------------------------------------------------
(* Properties of the library functions                                     *)

\* C13: split_questions never returns an empty sequence; for a text that is
\* not blank every fragment is trimmed, non-empty and ends with "?"; for an
\* empty or blank text the result is the text itself, alone and unchanged.
SplitFragmentsWellFormed ==
    (call # None /\ call[1].fn = "split_questions") =>
        LET text == call[1].args[1]
            res == call[1].result
        IN /\ res # <<>>
           /\ IF Strip(text) # <<>>
              THEN \A i \in 1..Len(res) :
                      /\ res[i] = Strip(res[i])
                      /\ res[i] # <<>>
                      /\ res[i][Len(res[i])] = "?"
              ELSE res = <<text>>

\* a text was split in two, the second fragment completed with "?", and a
\* blank text came back unchanged
SplitInTwo ==
    /\ call # None /\ call[1].fn = "split_questions"
    /\ \/ /\ call[1].args[1] = S("a? B")
          /\ call[1].result = <<S("a?"), S("B?")>>
       \/ /\ call[1].args[1] = S("  ")
          /\ call[1].result = <<S("  ")>>

\* the characters between two fragments: whitespace and question marks
IsSeparatorChar(c) == IsSpace(c) \/ c = "?"

\* the text is the fragments in order, each one possibly without its final
\* "?", with only separator characters before, between and after them
RECURSIVE Reassembles(_, _)
Reassembles(text, frags) ==
    IF frags = <<>> THEN \A i \in 1..Len(text) : IsSeparatorChar(text[i])
    ELSE \E k \in 0..Len(text) :
            /\ \A i \in 1..k : IsSeparatorChar(text[i])
            /\ LET r == Drop(text, k)
                   f == frags[1]
                   g == SubSeq(f, 1, Len(f) - 1)
               IN \/ /\ StartsWith(r, f)
                     /\ Reassembles(Drop(r, Len(f)), Tail(frags))
                  \/ /\ f # <<>> /\ f[Len(f)] = "?"
                     /\ StartsWith(r, g)
                     /\ Reassembles(Drop(r, Len(g)), Tail(frags))

\* C14: the fragments of split_questions, in order, with the separators
\* (question mark and whitespace) put back between them, give the input
\* again, up to the whitespace around a fragment and its final "?": no other
\* character is lost, duplicated or moved; "What is X? 2. What is Y?" gives
\* "What is X?" and "2. What is Y?".
SplitComplete ==
    (call # None /\ call[1].fn = "split_questions") =>
        /\ Reassembles(call[1].args[1], call[1].result)
        /\ call[1].args[1] = QuestionExample =>
              call[1].result = <<S("What is X?"), S("2. What is Y?")>>

\* the example of two numbered questions was split
ExampleSplit ==
    /\ call # None /\ call[1].fn = "split_questions"
    /\ call[1].args[1] = QuestionExample
    /\ Len(call[1].result) = 2

\* the line starts, after optional whitespace, with a bullet glyph, a
\* number and a period, a lowercase letter and ")", or an uppercase letter
\* and a period
HasBulletPrefix(ln) ==
    \E k \in 0..Len(ln) :
        /\ \A i \in 1..k : IsSpace(ln[i])
        /\ LET r == Drop(ln, k) IN
           \/ r # <<>> /\ r[1] \in {"U+2022", "-", "*"}
           \/ \E d \in 1..Len(r) - 1 :
                 (\A i \in 1..d : r[i] \in Digits) /\ r[d + 1] = "."
           \/ Len(r) >= 2 /\ r[1] \in LowerLetters /\ r[2] = ")"
           \/ Len(r) >= 2 /\ r[1] \in UpperLetters /\ r[2] = "."

\* C15: is_list_content is true exactly when some line matches a bullet
\* pattern and the matching lines are at least half of the non-empty lines,
\* the empty lines not being counted; with no matching line, and for the
\* empty sequence, it is false.
ListHalfOfNonEmpty ==
    (call # None /\ call[1].fn = "is_list_content") =>
        LET lines == call[1].args[1]
            matching == Cardinality({i \in 1..Len(lines) : HasBulletPrefix(lines[i])})
            nonempty == Cardinality({i \in 1..Len(lines) : lines[i] # <<>>})
        IN call[1].result <=> (matching >= 1 /\ 2 * matching >= nonempty)

\* C16: for the same text, width and height, a font size that is not
\* smaller needs at least as many lines and leaves at most as many lines
\* available; lines_needed is at least 1, and will_overflow is exactly
\* lines_needed > lines_available.
OverflowMonotone ==
    (call # None /\ call[1].fn = "check_text_overflow") =>
        LET f1 == call[1].args[2]
            f2 == call[1].args[3]
            r1 == call[1].result[1]
            r2 == call[1].result[2]
        IN /\ f1 <= f2 => /\ r1.lines_needed <= r2.lines_needed
                          /\ r1.lines_available >= r2.lines_available
           /\ \A r \in {r1, r2} :
                 /\ r.lines_needed >= 1
                 /\ r.will_overflow <=> (r.lines_needed > r.lines_available)

\* a text that fits at the smaller size, with lines to spare, needs more
\* lines, has fewer and overflows at the larger size
OverflowsWhenLarger ==
    /\ call # None /\ call[1].fn = "check_text_overflow"
    /\ call[1].args[2] < call[1].args[3]
    /\ call[1].result[1].lines_needed < call[1].result[2].lines_needed
    /\ call[1].result[1].lines_available > call[1].result[2].lines_available
    /\ ~call[1].result[1].will_overflow
    /\ call[1].result[2].will_overflow

\* the elements of a sequence
Range(seq) == {seq[i] : i \in 1..Len(seq)}

\* the templates that carry header strings for left and right, with them
TemplateHeaders ==
    [n \in {S("vocabulary"), S("comparison")} |->
        IF n = S("vocabulary")
        THEN [left |-> S("Word"), right |-> S("Definition")]
        ELSE [left |-> S("Before"), right |-> S("After")]]

\* the region after the template: one header line tagged emphasis, then the
\* lines it had, or still nothing
WithHeader(lines, header) ==
    IF lines = <<>> THEN <<>> ELSE <<S("[emphasis] ") \o header>> \o lines

\* C17: apply_template returns the record unchanged for a name that is not
\* a template; for a template with left and right headers it puts exactly
\* one header line tagged emphasis in front of the lines of left and of
\* right when the region is not empty, leaves an empty region empty, and
\* changes no other field.
TemplatePrependsHeaders ==
    (call # None /\ call[1].fn = "apply_template") =>
        LET record == call[1].args[1]
            name == call[1].args[2]
            res == call[1].result
        IN /\ name \notin {S("vocabulary"), S("reading"), S("comparison")}
                 => res = record
           /\ name \in DOMAIN TemplateHeaders =>
                 /\ res.left = WithHeader(record.left, TemplateHeaders[name].left)
                 /\ res.right = WithHeader(record.right, TemplateHeaders[name].right)
                 /\ \A k \in 1..Len(res.left) + Len(res.right) :
                       LET ln == (res.left \o res.right)[k] IN
                       ln \notin Range(record.left \o record.right)
                           => parse_styled_text(ln)[1] = Some(S("emphasis"))
                 /\ [res EXCEPT !.left = <<>>, !.right = <<>>]
                       = [record EXCEPT !.left = <<>>, !.right = <<>>]

\* the vocabulary template put "Word" in front of two lines and left the
\* empty right region empty; an unknown name changed nothing
HeaderPrepended ==
    /\ call # None /\ call[1].fn = "apply_template"
    /\ call[1].args[2] = S("vocabulary")
    /\ Len(call[1].args[1].left) = 2 /\ call[1].args[1].right = <<>>
    /\ call[1].result.left = <<S("[emphasis] Word")>> \o call[1].args[1].left
    /\ call[1].result.right = <<>>

\* what each character of a converted text stands for: a superscript or
\* subscript digit for the mark and the digit, a symbol for its literal, any
\* other character for itself
MathSource(c) ==
    CASE c = "U+2264" -> S("<=") [] c = "U+2265" -> S(">=")
      [] c = "U+2260" -> S("!=") [] c = "U+2248" -> S("~=")
      [] c = "U+03B1" -> S("alpha") [] c = "U+03B2" -> S("beta")
      [] c = "U+03B3" -> S("gamma") [] c = "U+03B4" -> S("delta")
      [] c = "U+03C0" -> S("pi") [] c = "U+03B8" -> S("theta")
      [] c = "U+03C3" -> S("sigma")
      [] c = "U+00B2" -> S("^2") [] c = "U+2082" -> S("_2")
      [] OTHER -> <<c>>

RECURSIVE MathSources(_)
MathSources(s) == IF s = <<>> THEN <<>> ELSE MathSource(s[1]) \o MathSources(Tail(s))

\* a mark followed by a digit, or a literal of the table, is left in the text
MathLeft(s) ==
    \/ \E i \in 1..Len(s) - 1 : s[i] \in {"^", "_"} /\ s[i + 1] \in Digits
    \/ \E k \in {S("<="), S(">="), S("!="), S("~="), S("alpha"), S("beta"), S("gamma"),
                 S("delta"), S("pi"), S("theta"), S("sigma")} : Contains(s, k)

-----------------------------------------------------------------------------
(* Frame conditions and invariants of the parser                           *)

\* C21: a blank line or a lone "---" changes nothing of the parser's state; a
\* "Template:" line changes only the template field; an "Image:" line only
\* appends one directive to images; none of them changes the active section,
\* the title, a region, the notes or the output sequence (so that a bare line
\* after them goes to the section that was active before them).
NonContentFrame ==
    [][pc = "parse" /\ nread' = nread + 1 =>
          LET ln == RStrip(line') IN
          /\ (ln = <<>> \/ ln = S("---")) =>
                 UNCHANGED <<current, section, slides>>
          /\ StartsWith(ln, S("Template:")) =>
                 /\ \A f \in DOMAIN current \ {"template"} : current'[f] = current[f]
                 /\ section' = section
                 /\ slides' = slides
          /\ StartsWith(ln, S("Image:")) =>
                 /\ current' = [current EXCEPT
                                   !.images = Append(@, parse_image_directive(ln))]
                 /\ section' = section
                 /\ slides' = slides
      ]_vars

\* a "Template:" line has just been read while a section with text was
\* active: the template is set and the section is still active
TemplateSetInSection ==
    /\ pc = "parse" /\ nread > 1
    /\ StartsWith(line, S("Template:"))
    /\ section \in Sections
    /\ current[section] # <<>>
    /\ current.template = <<S("vocabulary")>>

\* no entry of a region or of the notes of the record is empty or blank
NoBlankEntry(record) ==
    \A sec \in Sections : \A i \in 1..Len(record[sec]) : Strip(record[sec][i]) # <<>>

\* C27: at every step of the parser, no entry of a region or of the notes, in
\* the in-progress record or in an emitted record, is empty or only white
\* space; a section header with an empty remainder makes its section the
\* active one and appends nothing.
NoBlankEntries ==
    /\ [](NoBlankEntry(current) /\ \A i \in 1..Len(slides) : NoBlankEntry(slides[i]))
    /\ [][pc = "parse" /\ nread' = nread + 1 =>
             \A h \in DOMAIN HeaderRegions :
                (StartsWith(line', S(h \o ":")) /\ Remainder(line', h \o ":") = <<>>) =>
                    /\ section' = HeaderRegions[h]
                    /\ current' = current
                    /\ slides' = slides
         ]_vars

\* a "Content:" header followed by white space only has made content the
\* active section of a record whose notes have text, and appended nothing
EmptyHeaderRead ==
    /\ pc = "parse" /\ nread > 1
    /\ line = S("Content:  ")
    /\ section = "content"
    /\ current.content = <<>>
    /\ current.notes # <<>>

-----------------------------------------------------------------------------
(* Properties of list cleaning and of the text boxes                       *)

\* the length of the marker the text r starts with: a bullet glyph, digits
\* and a dot, or a lower-case letter and a closing parenthesis; 0 if none
\* (an upper-case letter and a dot is no marker here)
MarkerLength(r) ==
    IF r # <<>> /\ r[1] \in {"U+2022", "-", "*"} THEN 1
    ELSE IF \E d \in 1..Len(r) - 1 :
                (\A i \in 1..d : r[i] \in Digits) /\ r[d + 1] = "."
         THEN 1 + CHOOSE d \in 1..Len(r) - 1 :
                      (\A i \in 1..d : r[i] \in Digits) /\ r[d + 1] = "."
    ELSE IF Len(r) >= 2 /\ r[1] \in LowerLetters /\ r[2] = ")" THEN 2
    ELSE 0

\* the line without its first leading marker (with the white space around
\* that marker), and as it is when it starts with no marker
OneMarkerStripped(text) ==
    LET r == LStrip(text) IN
    IF MarkerLength(r) = 0 THEN text
    ELSE LStrip(Drop(r, MarkerLength(r)))

\* C22: clean_bullet_marker strips exactly one leading marker (glyph, "N." or
\* "a)"): a line with several consecutive leading markers loses only the
\* first, a line with no such marker is returned unchanged, and a leading
\* "A." is never stripped.
CleansOneMarker ==
    (call # None /\ call[1].fn = "clean_bullet_marker") =>
        call[1].result = OneMarkerStripped(call[1].args[1])

\* min(s, cap(L)): the cap is 12 for L > 1000, 14 for L > 700, 16 for L > 500,
\* 18 for L > 300, and there is none for L <= 300
ShrunkSize(s, L) ==
    IF L > 1000 THEN Min(s, 12)
    ELSE IF L > 700 THEN Min(s, 14)
    ELSE IF L > 500 THEN Min(s, 16)
    ELSE IF L > 300 THEN Min(s, 18)
    ELSE s

\* the font sizes of the paragraphs the call has rendered from lines (none of
\* the lines of RegionLines has a style tag); None is a size that was not set
RenderedSizes(result) ==
    UNION {{result.shapes[i].paragraphs[j].font.size :
               j \in 1..Len(result.shapes[i].paragraphs)} :
           i \in 1..Len(result.shapes)} \ {None}

HasStepMarker(ln) == Contains(Lower(ln), S("[step]"))

\* the indices of the non-blank lines, and the k-th of them
NonBlank(lines) == {i \in 1..Len(lines) : Strip(lines[i]) # <<>>}
NthNonBlank(lines, k) ==
    CHOOSE i \in NonBlank(lines) : Cardinality({j \in NonBlank(lines) : j <= i}) = k

\* C24: if a line of the region has "[step]" in any letter case, the region
\* is rendered in step mode and gets no single text frame: one element per
\* non-blank line, marked or not, in document order, the k-th (from 0) at the
\* region's top plus k increments, its text without any marker; if no line
\* has the marker, exactly one text frame is produced.
StepModeRendering ==
    (call # None /\ call[1].fn = "add_textbox") =>
        LET lines == call[1].args[1] IN
        \A warn \in BOOLEAN :
           LET shapes == call[1].result[warn].shapes IN
           IF \E i \in 1..Len(lines) : HasStepMarker(lines[i])
           THEN /\ Len(shapes) = Cardinality(NonBlank(lines))
                /\ \A k \in 1..Len(shapes) :
                      /\ shapes[k].name = <<"Content", "_Step", NthNonBlank(lines, k)>>
                      /\ shapes[k].top = CONTENT_TOP + (k - 1) * StepIncrement
                      /\ shapes[k].left = CONTENT_LEFT
                      /\ Len(shapes[k].paragraphs) = 1
                      /\ ~HasStepMarker(shapes[k].paragraphs[1].text)
           ELSE /\ Len(shapes) = 1
                /\ shapes[1].name = <<"Content">>
                /\ shapes[1].top = CONTENT_TOP
                /\ shapes[1].height = call[1].args[4].v

\* a region of a marked line, an unmarked one and one with two markers has
\* been rendered as three stacked elements
ThreeStepsStacked ==
    /\ call # None /\ call[1].fn = "add_textbox"
    /\ call[1].args[1] = <<S("[step] a"), S("b"), S("[STEP]c [step] pi")>>
    /\ LET shapes == call[1].result[TRUE].shapes IN
       /\ Len(shapes) = 3
       /\ shapes[2].paragraphs[1].text = S("b")
       /\ shapes[3].paragraphs[1].text = <<"c", " ", "U+03C0">>
       /\ shapes[3].top = CONTENT_TOP + 2 * StepIncrement

\* C25: the overflow estimate is advisory only: what add_textbox renders
\* (mode, elements, positions, font sizes, texts, styles) is the same with
\* enable_overflow_warnings on or off, whatever the estimate returns and when
\* it fails (a font size of zero); the estimate is made from the requested
\* font size and gives nothing but a warning, and none when turned off.
OverflowAdvisoryOnly ==
    (call # None /\ call[1].fn = "add_textbox") =>
        LET lines == call[1].args[1]
            s == call[1].args[2]
            on == call[1].result[TRUE]
            off == call[1].result[FALSE]
            estimate == check_text_overflow(process_math(Join(lines)), s,
                                            call[1].args[3], call[1].args[4])
        IN /\ on.shapes = off.shapes
           /\ off.warnings = <<>>
           /\ Len(on.warnings) <= 1
           /\ s = 0 => on.warnings = <<>>
           /\ s # 0 =>
                 /\ on.warnings # <<>> <=> estimate.will_overflow
                 /\ \A i \in 1..Len(on.warnings) :
                       /\ on.warnings[i].kind = "overflow"
                       /\ on.warnings[i].needed = estimate.lines_needed
                       /\ on.warnings[i].available = estimate.lines_available

\* a region that is auto-shrunk has been rendered with a warning when the
\* warnings are on, and as the same elements with none when they are off
WarnedAndShrunk ==
    /\ call # None /\ call[1].fn = "add_textbox"
    /\ Len(Join(call[1].args[1])) = 1001
    /\ call[1].args[2] = DefaultFontSize
    /\ call[1].result[TRUE].warnings # <<>>
    /\ call[1].result[FALSE].warnings = <<>>
    /\ call[1].result[TRUE].shapes = call[1].result[FALSE].shapes
    /\ RenderedSizes(call[1].result[TRUE]) = {Some(12)}

-----------------------------------------------------------------------------
(* Properties of the templates and of the layout                           *)

\* k header lines, then the lines; nothing for an empty region
Headed(lines, header, k) ==
    IF lines = <<>> THEN <<>>
    ELSE [i \in 1..k |-> S("[emphasis] ") \o header] \o lines

\* the number of times the template of record i has been applied so far:
\* once in each completed build, and once more in the running build when the
\* slide of the record has been added
TimesApplied(i) ==
    builds + (IF pc = "build" /\ i <= Len(deck) THEN 1 ELSE 0)

\* C26: template application is not idempotent and changes the record in
\* place: after k applications of a left/right template, a non-empty left
\* (right) region starts with exactly k header lines, so k builds over the
\* same list of records prepend k headers; one build applies the template
\* once to each record that has one, and never to a record without one or
\* with a template that has no headers.
TemplateAccumulates ==
    \A i \in 1..Len(slides) :
        LET t == slides[i].template
            k == TimesApplied(i)
        IN IF t # None /\ t[1] \in DOMAIN TemplateHeaders
           THEN /\ \E l \in RebuildLefts :
                      slides[i].left = Headed(l, TemplateHeaders[t[1]].left, k)
                /\ \E r \in RebuildRights :
                      slides[i].right = Headed(r, TemplateHeaders[t[1]].right, k)
           ELSE /\ slides[i].left \in RebuildLefts
                /\ slides[i].right \in RebuildRights

\* two builds of the same list have put two headers in front of a left region
TwoHeadersAfterTwoBuilds ==
    /\ pc = "done" /\ builds = 2
    /\ slides[1].template = Some(S("vocabulary"))
    /\ slides[1].left = <<S("[emphasis] Word"), S("[emphasis] Word"), S("a")>>

\* C28: applying a template never changes the layout mode: whatever the
\* record and the template name, each of the seven regions is empty after
\* apply_template exactly when it was empty before, so the layout resolved
\* after the template is the one resolved before it.
TemplateKeepsLayout ==
    (call # None /\ call[1].fn = "apply_template") =>
        LET record == call[1].args[1]
            res == call[1].result
        IN /\ \A r \in Regions : res[r] = <<>> <=> record[r] = <<>>
           /\ PriorityMode(res) = PriorityMode(record)

\* the comparison template gave a header to the right region of a record
\* with content and no left region, which stays a two-column record
HeaderKeepsTwoColumns ==
    /\ call # None /\ call[1].fn = "apply_template"
    /\ call[1].args[2] = S("comparison")
    /\ call[1].args[1].left = <<>> /\ call[1].args[1].content # <<>>
    /\ call[1].result.left = <<>>
    /\ Len(call[1].result.right) = Len(call[1].args[1].right) + 1
    /\ PriorityMode(call[1].result) = "TwoColumn"

\* C29: validator and builder agree on emptiness: "No content defined" is
\* reported for a record exactly when its slide gets no region text box; the
\* builder shows only regions of the selected layout mode, so a non-empty
\* region outside that mode is not shown, and no issue reports it: the issues
\* of such a record are about its title and its images only.
ValidatorBuilderAgree ==
    \A i \in 1..Len(deck) :
        LET mine == {j \in 1..Len(issues) : issues[j].slide = i}
            mode == deck[i].layout
            shown == {RegionOfLabel[mode][lab] :
                         lab \in RegionLabels(deck[i]) \cap DOMAIN RegionOfLabel[mode]}
        IN /\ (\E j \in mine : issues[j].kind = "No content defined")
                 <=> RegionLabels(deck[i]) = {}
           /\ RegionLabels(deck[i]) \subseteq DOMAIN RegionOfLabel[mode]
           /\ (\E r \in Regions \ shown : slides[i][r] # <<>>) =>
                 /\ shown # {}
                 /\ \A j \in mine :
                       issues[j].kind \in {"Missing title", "Title very long",
                                           "Image not found"}

\* a record with content and a left column was validated without an issue
\* and built as two columns: the left column is shown, the content is not
ContentDroppedSilently ==
    /\ Len(deck) = 1 /\ vidx = 1
    /\ slides[1].content # <<>> /\ slides[1].left # <<>> /\ slides[1].right = <<>>
    /\ deck[1].layout = "TwoColumn"
    /\ RegionLabels(deck[1]) = {"Left"}
    /\ issues = <<>>

\* rectangles: of an add_textbox call, of a shape, and the content area
CallRect(c) ==
    [left |-> c.left, top |-> c.top,
     right |-> c.left + c.width.v, bottom |-> c.top + c.height.v]
ShapeRect(sh) ==
    [left |-> sh.left, top |-> sh.top,
     right |-> sh.left + sh.width, bottom |-> sh.top + sh.height]
ContentArea ==
    [left |-> CONTENT_LEFT, top |-> CONTENT_TOP,
     right |-> CONTENT_LEFT + CONTENT_WIDTH, bottom |-> CONTENT_TOP + CONTENT_HEIGHT]

Inside(a, b) ==
    a.left >= b.left /\ a.top >= b.top /\ a.right <= b.right /\ a.bottom <= b.bottom
Apart(a, b) ==
    a.right <= b.left \/ b.right <= a.left \/ a.bottom <= b.top \/ b.bottom <= a.top

\* C30: in every layout mode the rectangles given to the rendered regions
\* lie inside the content area and do not overlap one another, and every
\* text element of a region, each stacked element of step mode included,
\* lies inside the rectangle of its region.
GeometryContained ==
    \A i \in 1..Len(deck) :
        LET calls == RegionCalls(slides[i], deck[i].layout)
            rendered == {j \in 1..Len(calls) : calls[j].lines # <<>>}
        IN /\ \A j \in rendered : Inside(CallRect(calls[j]), ContentArea)
           /\ \A j, k \in rendered : j # k => Apart(CallRect(calls[j]), CallRect(calls[k]))
           /\ \A j \in rendered : \A n \in 1..Len(deck[i].shapes) :
                 LET sh == deck[i].shapes[n] IN
                 (sh.kind = "textbox" /\ sh.name[1] = calls[j].label) =>
                     Inside(ShapeRect(sh), CallRect(calls[j]))

====
